---- MODULE Spec2Model ----
(***************************************************************************)
(* PRaftBFT follower (prellblock/src/consensus/praftbft): the per-block    *)
(* follower state machine, the message envelope, the quorum predicate, the *)
(* view-change request and the censorship watchdog.                        *)
(*                                                                         *)
(* follower.rs, mod.rs and block.rs are modelled from the source.  The     *)
(* parts of the crate they call but that are not among the sources         *)
(* (state.rs, ring_buffer.rs, view_change.rs, leader.rs, the permission    *)
(* checker) are modelled from the specification (sections 3, 4.3, 4.5).    *)
(***************************************************************************)
EXTENDS Integers, Sequences, FiniteSets, TLC

(* ------------------------------ bounds -------------------------------- *)
MaxTerm == 1
MaxHeight == 2
RingSize == 2
MaxQueue == 1
QueueLen == 3
QueueHeight == 2
MaxTasks == 2
TaskHeight == 1
MaxPeers == 9
NetHeight == 1
MaxNumber == 10

(* -------------------------- program constants ------------------------- *)
\* mod.rs: "Cannot find consensus for less than four peers."
MinPeers == 4
\* mod.rs: MAX_TRANSACTIONS_PER_BLOCK
MAX_TRANSACTIONS_PER_BLOCK == 1

(* The roster: the smallest one the quorum predicate accepts. *)
Peers == 0 .. (MinPeers - 1)
\* An identity that is not part of the roster.
Outsider == MinPeers
\* Client transactions (opaque, comparable for equality) whose client
\* signature verifies and whose signer holds the permission.
Txs == {1, 2}
\* A transaction whose client signature does not verify.
BadSigTx == 3
\* A transaction whose signer lacks the permission.
DeniedTx == 4
AllTxs == Txs \cup {BadSigTx, DeniedTx}

VARIABLES
    honest,         \* the peers that run the follower code (the others are arbitrary)
    leader_term,    \* FollowerState.leader_term, per peer
    block_number,   \* FollowerState.block_number (last committed height), per peer
    round_states,   \* FollowerState.round_states (the ring), per peer
    view_states,    \* FollowerState view-state map (term -> view phase), per peer
    block_storage,  \* the persisted blocks, per peer
    queue,          \* the transaction queue, per peer
    world_state,    \* the applied transactions, per peer
    signed,         \* the signatures of honest peers that other peers hold
    sent,           \* what the last call sent: its signed reply and its broadcast
    peers_len,      \* quorum predicate: the roster size of the instance under construction
    identity_in,    \* quorum predicate: whether the identity is part of the roster
    constructed,    \* quorum predicate: outcome of PRaftBFT::new
    number,         \* quorum predicate: the argument of the last supermajority_reached call
    decision,       \* quorum predicate: outcome of the last supermajority_reached call
    tasks,          \* the handle_message tasks of a peer: position, message, receiver
    locks,          \* the holders of the follower-state, queue and world-state lock, per peer
    watchdog,       \* the censorship checker of a peer: position and timer
    recent_commit   \* whether a peer committed a block less than CENSORSHIP_TIMEOUT ago

fvars == <<leader_term, block_number, round_states, view_states>>
svars == <<block_storage, queue, world_state>>
qvars == <<peers_len, identity_in, constructed, number, decision>>
tvars == <<tasks, locks, watchdog, recent_commit>>
vars == <<honest, fvars, svars, signed, sent, qvars, tvars>>

(* ------------------------- quorum predicate --------------------------- *)
\* Variant of supermajority_reached that is content with two thirds.
supermajority_reached_two_thirds(len, k) ==
    IF len < MinPeers
    THEN "panic"
    ELSE IF k >= (len * 2) \div 3 THEN "true" ELSE "false"

\* supermajority_reached: panics below four peers, else number >= len*2/3+1.
supermajority_reached(len, k) ==
    IF len < MinPeers
    THEN "panic"
    ELSE IF k >= (len * 2) \div 3 + 1 THEN "true" ELSE "false"

\* The threshold for the roster of this model.
Quorum == (Cardinality(Peers) * 2) \div 3 + 1

(* ------------------------------ hashing ------------------------------- *)
DefaultHash == 0

RECURSIVE EncodeTxs(_)
\* The canonical encoding of a transaction list (injective).
EncodeTxs(txs) ==
    IF txs = <<>> THEN 0
    ELSE Head(txs) + (Cardinality(AllTxs) + 1) * EncodeTxs(Tail(txs))

\* More than any code of a list of at most two transactions.
NumTxCodes == (Cardinality(AllTxs) + 1) * (Cardinality(AllTxs) + 1)

\* Body::hash: a digest of the serialized body; collision-free on the bodies
\* of the model and never the all-zero default hash.
BodyHash(body) ==
    1 + body.leader_term
      + (MaxTerm + 2) * (body.height
      + (MaxHeight + 2) * (EncodeTxs(body.transactions)
      + NumTxCodes * body.prev_block_hash))

Body(term, height, prev, txs) ==
    [leader_term |-> term, height |-> height,
     prev_block_hash |-> prev, transactions |-> txs]

\* Block::hash
BlockHashOf(block) == BodyHash(block.body)

(* ----------------------------- signatures ----------------------------- *)
\* What a signature that verifies under no payload is a signature over.
Garbage == [kind |-> "Garbage"]

\* pinxit: PeerId::verify(message, signature).  A signature is modelled by
\* the payload it was made over with the key of the peer it is attributed to.
Verify(payload, signature) == signature = payload

\* permission_checker.verify_is_rpu
verify_is_rpu(peer_id) == peer_id \in Peers

\* Signed<Transaction>::verify_ref
TxVerify(tx) == tx # BadSigTx

\* permission_checker.verify(signer, transaction)
TxPermitted(tx) == tx # DeniedTx

(* ------------------------------ messages ------------------------------ *)
NoSigs == [x \in {} |-> Garbage]

Msg(kind, term, bn, hash, sigs, data) ==
    [kind |-> kind, leader_term |-> term, block_number |-> bn,
     block_hash |-> hash, signatures |-> sigs, data |-> data]

MsgPrepare(term, bn, hash) == Msg("Prepare", term, bn, hash, NoSigs, <<>>)
AckPrepare(term, bn, hash) == Msg("AckPrepare", term, bn, hash, NoSigs, <<>>)
MsgAppend(term, bn, hash, sigs, data) == Msg("Append", term, bn, hash, sigs, data)
AckAppend(term, bn, hash) == Msg("AckAppend", term, bn, hash, NoSigs, <<>>)
MsgCommit(term, bn, hash, sigs) == Msg("Commit", term, bn, hash, sigs, <<>>)
AckCommit == Msg("AckCommit", 0, 0, DefaultHash, NoSigs, <<>>)
ViewChange(term) == Msg("ViewChange", term, 0, DefaultHash, NoSigs, <<>>)
AckViewChange == Msg("AckViewChange", 0, 0, DefaultHash, NoSigs, <<>>)
NewView(term, sigs) == Msg("NewView", term, 0, DefaultHash, sigs, <<>>)
AckNewView == Msg("AckNewView", 0, 0, DefaultHash, NoSigs, <<>>)
NoMsg == Msg("None", 0, 0, DefaultHash, NoSigs, <<>>)

\* Signed<ConsensusMessage>: the payload, its signer and the signature.
Envelope(signer, signature, payload) ==
    [signer |-> signer, signature |-> signature, payload |-> payload]

\* Signable::sign with an identity.
Sign(identity, payload) == Envelope(identity, payload, payload)

(* ---------------------------- follower state -------------------------- *)
Waiting == [name |-> "Waiting", leader |-> 0, block_hash |-> DefaultHash,
            body |-> Body(0, 0, DefaultHash, <<>>)]
PhasePrepare(leader, hash) == [Waiting EXCEPT !.name = "Prepare",
                               !.leader = leader, !.block_hash = hash]
PhaseAppend(meta, body) == [Waiting EXCEPT !.name = "Append",
                            !.leader = meta.leader,
                            !.block_hash = meta.block_hash, !.body = body]
PhaseCommitted(hash) == [Waiting EXCEPT !.name = "Committed", !.block_hash = hash]

\* RoundState::default()
DefaultRoundState == [phase |-> Waiting, buffered_commit_message |-> NoMsg]

ViewWaiting == [name |-> "Waiting", messages |-> {}]
ViewChanging(messages) == [name |-> "ViewChanging", messages |-> messages]
ViewChanged == [name |-> "Changed", messages |-> {}]

ViewTerms == 1 .. (MaxTerm + 1)

\* FollowerState::new() together with the empty stores of a fresh peer.
NewPeerState ==
    [leader_term |-> 0, block_number |-> 0,
     round_states |-> [i \in 1 .. RingSize |-> DefaultRoundState],
     view_states |-> [t \in ViewTerms |-> ViewWaiting],
     block_storage |-> <<>>, queue |-> <<>>, world_state |-> <<>>]

\* The leader of a term: peers_sorted[term mod n].
leader(term) == term % Cardinality(Peers)

is_current_leader(term, peer_id) == peer_id = leader(term)

\* FollowerState::verify_message_meta
verify_message_meta(st, term, bn) ==
    IF term # st.leader_term THEN "WrongLeaderTerm"
    ELSE IF bn <= st.block_number THEN "WrongBlockNumber"
    ELSE "Ok"

\* The ring covers the heights block_number+1 .. block_number+RingSize.
InWindow(st, bn) == bn - st.block_number \in 1 .. RingSize

\* FollowerState::round_state
round_state(st, bn) == st.round_states[bn - st.block_number]

\* FollowerState::round_state_mut(bn).phase = phase
SetPhase(st, bn, phase) ==
    [st EXCEPT !.round_states[bn - st.block_number].phase = phase]

\* RingBuffer::increment: drop the oldest slot, add a new one at the end.
increment(ring, new) == Append(Tail(ring), new)

\* FollowerState::last_block_hash: the hash of the last committed block.
last_block_hash(st) ==
    IF st.block_storage = <<>> THEN DefaultHash
    ELSE BlockHashOf(st.block_storage[Len(st.block_storage)])

\* FollowerState::set_view_phase: Waiting -> ViewChanging -> Changed only.
set_view_phase(st, term, phase) ==
    LET cur == st.view_states[term].name
        ok == \/ cur = "Waiting" /\ phase.name = "ViewChanging"
              \/ cur \in {"Waiting", "ViewChanging"} /\ phase.name = "Changed"
    IN  IF ok THEN [st EXCEPT !.view_states[term] = phase] ELSE st

(* ------------------------------ outcomes ------------------------------ *)
\* The outcome of a handler: the state it leaves, its reply (or error) and
\* the ViewChange it broadcast, if any.
Ok(st, reply) == [st |-> st, ok |-> TRUE, err |-> "", reply |-> reply,
                  broadcast |-> NoMsg]
Err(st, err) == [st |-> st, ok |-> FALSE, err |-> err, reply |-> NoMsg,
                 broadcast |-> NoMsg]

(* --------------------------- view-change request ----------------------- *)
\* Variant of request_view_change that also moves to the requested term.
request_view_change_and_enter(st) ==
    [st |-> [set_view_phase(st, st.leader_term + 1, ViewChanging({}))
                EXCEPT !.leader_term = st.leader_term + 1],
     broadcast |-> ViewChange(st.leader_term + 1)]

\* request_view_change: the view-state for leader_term+1 becomes
\* ViewChanging (a refused phase change is only logged) and ViewChange is
\* broadcast after the follower-state lock is released.
request_view_change(st) ==
    [st |-> set_view_phase(st, st.leader_term + 1, ViewChanging({})),
     broadcast |-> ViewChange(st.leader_term + 1)]

\* A handler that requests a view change and then returns an error.
ViewChangeThenErr(st, err) ==
    [Err(request_view_change(st).st, err)
        EXCEPT !.broadcast = request_view_change(st).broadcast]

(* ------------------- acknowledgement-signature checks ------------------ *)
\* Variant of SignatureScan that trusts the signatures and checks the
\* signers only.
SignatureScanTrusting(sigs, payload) ==
    IF \E p \in DOMAIN sigs : ~verify_is_rpu(p) THEN "PermissionDenied" ELSE "Ok"

\* The loop over a signature map: each signature must verify against the
\* canonical Ack payload, then its signer must be a known RPU.  The maps a
\* message carries here hold at most one failing entry, so the iteration
\* order of the map does not change the outcome.
SignatureScan(sigs, payload) ==
    IF \E p \in DOMAIN sigs : ~Verify(payload, sigs[p]) THEN "InvalidSignature"
    ELSE IF \E p \in DOMAIN sigs : ~verify_is_rpu(p) THEN "PermissionDenied"
    ELSE "Ok"

\* The loop over the transactions of an Append.
TransactionScan(data) ==
    IF \E i \in 1 .. Len(data) : ~TxVerify(data[i]) THEN "InvalidSignature"
    ELSE IF \E i \in 1 .. Len(data) : ~TxPermitted(data[i]) THEN "PermissionDenied"
    ELSE "Ok"

(* ------------------------------- Prepare ------------------------------- *)
\* Variant of handle_prepare_message that records the proposal before it
\* checks the sender and the coordinates of the message.
handle_prepare_message_recording_first(st, peer_id, term, bn, hash) ==
    LET recorded == IF InWindow(st, bn) /\ round_state(st, bn).phase.name = "Waiting"
                    THEN SetPhase(st, bn, PhasePrepare(leader(st.leader_term), hash))
                    ELSE st
    IN  IF ~is_current_leader(term, peer_id) THEN Err(recorded, "WrongLeader")
        ELSE IF verify_message_meta(st, term, bn) # "Ok"
        THEN Err(recorded, verify_message_meta(st, term, bn))
        ELSE IF ~InWindow(st, bn) THEN Err(st, "WrongBlockNumber")
        ELSE IF round_state(st, bn).phase.name # "Waiting" THEN Err(st, "WrongPhase")
        ELSE Ok(recorded, AckPrepare(st.leader_term, bn, hash))

\* Variant of handle_prepare_message that takes a Prepare in phase Prepare
\* as well and records its hash.
handle_prepare_message_again(st, peer_id, term, bn, hash) ==
    IF ~is_current_leader(term, peer_id) THEN Err(st, "WrongLeader")
    ELSE IF verify_message_meta(st, term, bn) # "Ok"
    THEN Err(st, verify_message_meta(st, term, bn))
    ELSE IF ~InWindow(st, bn) THEN Err(st, "WrongBlockNumber")
    ELSE IF round_state(st, bn).phase.name \notin {"Waiting", "Prepare"}
    THEN Err(st, "WrongPhase")
    ELSE Ok(SetPhase(st, bn, PhasePrepare(leader(st.leader_term), hash)),
            AckPrepare(st.leader_term, bn, hash))

handle_prepare_message(st, peer_id, term, bn, hash) ==
    IF ~is_current_leader(term, peer_id) THEN Err(st, "WrongLeader")
    ELSE IF verify_message_meta(st, term, bn) # "Ok"
    THEN Err(st, verify_message_meta(st, term, bn))
    ELSE IF ~InWindow(st, bn) THEN Err(st, "WrongBlockNumber")
    ELSE IF round_state(st, bn).phase.name # "Waiting" THEN Err(st, "WrongPhase")
    ELSE Ok(SetPhase(st, bn, PhasePrepare(leader(st.leader_term), hash)),
            AckPrepare(st.leader_term, bn, hash))

(* -------------------------------- Commit ------------------------------- *)
\* Variant of Retain that looks for the first transaction of the block only.
RetainFirstOnly(q, txs) ==
    LET Kept(e) == txs = <<>> \/ e.tx # txs[1]
    IN  SelectSeq(q, Kept)

\* Vec::retain on the queue: drop the entries whose transaction is in the block.
RECURSIVE Retain(_, _)
Retain(q, txs) ==
    IF q = <<>> THEN <<>>
    ELSE IF \E i \in 1 .. Len(txs) : txs[i] = Head(q).tx
         THEN Retain(Tail(q), txs)
         ELSE <<Head(q)>> \o Retain(Tail(q), txs)

\* Variant of CommitPhase that buffers a Commit in phase Append as well.
CommitPhaseBuffering(phase) ==
    IF phase.name \in {"Waiting", "Prepare", "Append"} THEN "buffer"
    ELSE "refuse"

\* Variant of CommitPhase that applies a Commit already in phase Prepare.
CommitPhaseFromPrepare(phase) ==
    IF phase.name = "Waiting" THEN "buffer"
    ELSE IF phase.name \in {"Prepare", "Append"} THEN "apply"
    ELSE "refuse"

\* The match on the round-state's phase in handle_commit_message_inner:
\* Waiting and Prepare buffer the Commit, Append applies it, any other
\* phase refuses it.
CommitPhase(phase) ==
    IF phase.name \in {"Waiting", "Prepare"} THEN "buffer"
    ELSE IF phase.name = "Append" THEN "apply"
    ELSE "refuse"

\* Variant of ApplyCommit that leaves the queue as it is.
ApplyCommitKeepingQueue(st, bn, hash, body, sigs) ==
    LET committed == SetPhase(st, bn, PhaseCommitted(hash))
        block == [body |-> body, signatures |-> sigs]
    IN  [committed EXCEPT
            !.round_states = increment(committed.round_states, DefaultRoundState),
            !.block_number = bn,
            !.block_storage = Append(st.block_storage, block),
            !.world_state = st.world_state \o body.transactions]

\* Variant of ApplyCommit that leaves the ring as it is.
ApplyCommitNoShift(st, bn, hash, body, sigs) ==
    LET committed == SetPhase(st, bn, PhaseCommitted(hash))
        block == [body |-> body, signatures |-> sigs]
    IN  [committed EXCEPT
            !.block_number = bn,
            !.block_storage = Append(st.block_storage, block),
            !.queue = Retain(st.queue, body.transactions),
            !.world_state = st.world_state \o body.transactions]

\* Variant of ApplyCommit that does not write the block.
ApplyCommitNoWrite(st, bn, hash, body, sigs) ==
    LET committed == SetPhase(st, bn, PhaseCommitted(hash))
    IN  [committed EXCEPT
            !.round_states = increment(committed.round_states, DefaultRoundState),
            !.block_number = bn,
            !.queue = Retain(st.queue, body.transactions),
            !.world_state = st.world_state \o body.transactions]

\* The successful end of handle_commit_message_inner: phase Committed, ring
\* shift, block_number, block write, queue pruning, world-state apply.
ApplyCommit(st, bn, hash, body, sigs) ==
    LET committed == SetPhase(st, bn, PhaseCommitted(hash))
        block == [body |-> body, signatures |-> sigs]
    IN  [committed EXCEPT
            !.round_states = increment(committed.round_states, DefaultRoundState),
            !.block_number = bn,
            !.block_storage = Append(st.block_storage, block),
            !.queue = Retain(st.queue, body.transactions),
            !.world_state = st.world_state \o body.transactions]

\* The two assert!s on the slot that increment returns: it is Committed and
\* holds no buffered Commit.  A failed assert panics after the phase change
\* and the ring shift, before block_number is written.
CommitOutcome(st, bn, hash, body, sigs) ==
    LET committed == SetPhase(st, bn, PhaseCommitted(hash))
        old_round_state == Head(committed.round_states)
        shifted == [committed EXCEPT
                       !.round_states = increment(committed.round_states,
                                                  DefaultRoundState)]
    IN  IF /\ old_round_state.phase.name = "Committed"
           /\ old_round_state.buffered_commit_message = NoMsg
        THEN Ok(ApplyCommit(st, bn, hash, body, sigs), AckCommit)
        ELSE Err(shifted, "panic")

handle_commit_message_inner(st, peer_id, term, bn, hash, sigs) ==
    IF ~is_current_leader(term, peer_id) THEN Err(st, "WrongLeader")
    ELSE IF verify_message_meta(st, term, bn) # "Ok"
    THEN Err(st, verify_message_meta(st, term, bn))
    ELSE IF ~InWindow(st, bn) THEN Err(st, "WrongBlockNumber")
    ELSE LET phase == round_state(st, bn).phase IN
    IF CommitPhase(phase) = "buffer"
    THEN Err([st EXCEPT !.round_states[bn - st.block_number].buffered_commit_message
                            = MsgCommit(term, bn, hash, sigs)],
             "WrongPhase")
    ELSE IF CommitPhase(phase) # "apply" THEN Err(st, "WrongPhase")
    ELSE IF hash # phase.block_hash THEN Err(st, "ChangedBlockHash")
    ELSE IF bn # st.block_number + 1 THEN Err(st, "WrongBlockNumber")
    ELSE IF supermajority_reached(Cardinality(Peers), Cardinality(DOMAIN sigs)) # "true"
    THEN ViewChangeThenErr(st, "NotEnoughSignatures")
    ELSE IF SignatureScan(sigs, AckAppend(term, bn, hash)) = "InvalidSignature"
    THEN ViewChangeThenErr(st, "InvalidSignature")
    ELSE IF SignatureScan(sigs, AckAppend(term, bn, hash)) = "PermissionDenied"
    THEN Err(st, "PermissionDenied")
    ELSE CommitOutcome(st, bn, hash, phase.body, sigs)

\* follower_state_in_block: the handler holds the lock only once
\* block_number + 1 >= the message's block number.
follower_state_in_block(st, bn) == st.block_number + 1 >= bn

handle_commit_message(st, peer_id, term, bn, hash, sigs) ==
    handle_commit_message_inner(st, peer_id, term, bn, hash, sigs)

(* -------------------------------- Append ------------------------------- *)
\* Variant of IsEmptyBlock that lets an empty proposal pass.
IsEmptyBlockNever(data) == FALSE

\* data.is_empty(): empty blocks are not allowed.
IsEmptyBlock(data) == data = <<>>

\* Variant of BodyHashMatches that accepts any advertised hash.
BodyHashUnchecked(hash, body) == TRUE

\* block_hash != body.hash() => WrongBlockHash
BodyHashMatches(hash, body) == hash = BodyHash(body)

\* Variant of RefuseBlockHash that records the proposal before refusing it.
RefuseBlockHashRecorded(st, bn, meta, body) ==
    Err(SetPhase(st, bn, PhaseAppend(meta, body)), "WrongBlockHash")

\* return Err(Error::WrongBlockHash), before the phase is set to Append and
\* before a buffered Commit is looked at.
RefuseBlockHash(st, bn, meta, body) == Err(st, "WrongBlockHash")

\* Variant of AppendAccepted that returns what the buffered Commit returns.
AppendAcceptedReturningCommit(st, peer_id, bn, hash, meta, body) ==
    LET appended == SetPhase(st, bn, PhaseAppend(meta, body))
        buffered == round_state(st, bn).buffered_commit_message
        taken == [appended EXCEPT
                     !.round_states[bn - st.block_number].buffered_commit_message = NoMsg]
    IN  IF buffered = NoMsg
        THEN Ok(appended, AckAppend(st.leader_term, bn, hash))
        ELSE handle_commit_message_inner(taken, peer_id, buffered.leader_term,
                 buffered.block_number, buffered.block_hash, buffered.signatures)

\* Variant of AppendAccepted that leaves a buffered Commit where it is.
AppendAcceptedKeepingBuffer(st, peer_id, bn, hash, meta, body) ==
    Ok(SetPhase(st, bn, PhaseAppend(meta, body)), AckAppend(st.leader_term, bn, hash))

\* The end of handle_append_message once every check has passed: phase
\* Append, then a buffered Commit is taken and applied (its result is only
\* logged), and the reply is AckAppend in either case.
AppendAccepted(st, peer_id, bn, hash, meta, body) ==
    LET appended == SetPhase(st, bn, PhaseAppend(meta, body))
        buffered == round_state(st, bn).buffered_commit_message
        taken == [appended EXCEPT
                     !.round_states[bn - st.block_number].buffered_commit_message = NoMsg]
        inner == handle_commit_message_inner(taken, peer_id, buffered.leader_term,
                     buffered.block_number, buffered.block_hash, buffered.signatures)
    IN  IF buffered = NoMsg
        THEN Ok(appended, AckAppend(st.leader_term, bn, hash))
        ELSE [Ok(inner.st, AckAppend(st.leader_term, bn, hash))
                 EXCEPT !.broadcast = inner.broadcast]

\* Variant of AppendPhase that takes an Append in phase Append as well.
AppendPhaseAgain(phase) == phase.name \in {"Prepare", "Waiting", "Append"}

\* The match on the round-state's phase in handle_append_message: Prepare
\* and Waiting go on, any other phase is refused.
AppendPhase(phase) == phase.name \in {"Prepare", "Waiting"}

handle_append_message(st, peer_id, term, bn, hash, sigs, data) ==
    IF ~is_current_leader(term, peer_id) THEN Err(st, "WrongLeader")
    ELSE IF verify_message_meta(st, term, bn) # "Ok"
    THEN Err(st, verify_message_meta(st, term, bn))
    ELSE IF ~InWindow(st, bn) THEN Err(st, "WrongBlockNumber")
    ELSE LET phase == round_state(st, bn).phase
             meta == IF phase.name = "Prepare"
                     THEN [leader |-> phase.leader, block_hash |-> phase.block_hash]
                     ELSE [leader |-> leader(st.leader_term), block_hash |-> hash]
             body == Body(term, bn, last_block_hash(st), data)
    IN
    IF ~AppendPhase(phase) THEN Err(st, "WrongPhase")
    ELSE IF hash # meta.block_hash THEN Err(st, "ChangedBlockHash")
    ELSE IF bn # st.block_number + 1 THEN Err(st, "WrongBlockNumber")
    ELSE IF supermajority_reached(Cardinality(Peers), Cardinality(DOMAIN sigs)) # "true"
    THEN ViewChangeThenErr(st, "NotEnoughSignatures")
    ELSE IF SignatureScan(sigs, AckPrepare(term, bn, hash)) = "InvalidSignature"
    THEN ViewChangeThenErr(st, "InvalidSignature")
    ELSE IF SignatureScan(sigs, AckPrepare(term, bn, hash)) = "PermissionDenied"
    THEN Err(st, "PermissionDenied")
    ELSE IF IsEmptyBlock(data) THEN ViewChangeThenErr(st, "EmptyBlock")
    ELSE IF TransactionScan(data) # "Ok"
    THEN ViewChangeThenErr(st, TransactionScan(data))
    ELSE IF ~BodyHashMatches(hash, body) THEN RefuseBlockHash(st, bn, meta, body)
    ELSE AppendAccepted(st, peer_id, bn, hash, meta, body)

(* ------------------------------ view change ---------------------------- *)
\* handle_view_change: the sender's ViewChange signature is recorded in the
\* view-state of the new term, which is ViewChanging from then on; once a
\* supermajority is collected the designated leader of that term broadcasts
\* NewView.
handle_view_change(st, self, peer_id, new_leader_term) ==
    LET view == st.view_states[new_leader_term]
        messages == view.messages \cup {peer_id}
        recorded == [st EXCEPT !.view_states[new_leader_term] = ViewChanging(messages)]
    IN  IF new_leader_term <= st.leader_term THEN Err(st, "WrongLeaderTerm")
        ELSE IF view.name = "Changed" THEN Err(st, "ViewPhaseConflict")
        ELSE IF /\ self = leader(new_leader_term)
                /\ supermajority_reached(Cardinality(Peers), Cardinality(messages)) = "true"
        THEN [Ok(recorded, AckViewChange) EXCEPT !.broadcast =
                 NewView(new_leader_term,
                         [x \in messages |-> ViewChange(new_leader_term)])]
        ELSE Ok(recorded, AckViewChange)

\* handle_new_view: a NewView of the term's leader with a supermajority of
\* verified ViewChange signatures of roster members installs the term:
\* leader_term is set, the round-states in flight go back to Waiting and
\* the view-state of the term is Changed.
handle_new_view(st, peer_id, term, sigs) ==
    IF ~is_current_leader(term, peer_id) THEN Err(st, "WrongLeader")
    ELSE IF term <= st.leader_term THEN Err(st, "WrongLeaderTerm")
    ELSE IF supermajority_reached(Cardinality(Peers), Cardinality(DOMAIN sigs)) # "true"
    THEN Err(st, "NotEnoughSignatures")
    ELSE IF SignatureScan(sigs, ViewChange(term)) # "Ok"
    THEN Err(st, SignatureScan(sigs, ViewChange(term)))
    ELSE Ok([set_view_phase(st, term, ViewChanged) EXCEPT
                !.leader_term = term,
                !.round_states = [i \in 1 .. RingSize |-> DefaultRoundState]],
            AckNewView)

(* ---------------------------- handle_message --------------------------- *)
\* Variant of IsRosterPeer that lets every signer pass.
IsRosterPeerAny(peer_id) == TRUE

\* peer_ids().any(|peer_id| *message.signer() == peer_id)
IsRosterPeer(peer_id) == peer_id \in Peers

\* The dispatch of handle_message on the verified payload.
Dispatch(st, self, peer_id, m) ==
    CASE m.kind = "Prepare" ->
           handle_prepare_message(st, peer_id, m.leader_term, m.block_number,
                                  m.block_hash)
      [] m.kind = "Append" ->
           handle_append_message(st, peer_id, m.leader_term, m.block_number,
                                 m.block_hash, m.signatures, m.data)
      [] m.kind = "Commit" ->
           handle_commit_message(st, peer_id, m.leader_term, m.block_number,
                                 m.block_hash, m.signatures)
      [] m.kind = "ViewChange" ->
           handle_view_change(st, self, peer_id, m.leader_term)
      [] m.kind = "NewView" ->
           handle_new_view(st, peer_id, m.leader_term, m.signatures)
      [] OTHER -> Err(st, "unimplemented")

\* handle_message: roster check, envelope signature, dispatch, and the
\* reply signed with the local identity.
handle_message(st, self, message) ==
    IF ~IsRosterPeer(message.signer) THEN Err(st, "InvalidPeer")
    ELSE IF ~Verify(message.payload, message.signature) THEN Err(st, "InvalidSignature")
    ELSE LET out == Dispatch(st, self, message.signer, message.payload)
         IN  IF out.ok THEN [out EXCEPT !.reply = Sign(self, out.reply)] ELSE out

(* ------------------------------- watchdog ------------------------------ *)
\* queue.iter().any(|(timestamp, _)| timestamp.elapsed() > CENSORSHIP_TIMEOUT)
\* Variant of has_old_transactions that asks for every entry to be old.
has_old_transactions_all(q) == \A i \in 1 .. Len(q) : q[i].old

\* queue.iter().any(|(timestamp, _)| timestamp.elapsed() > CENSORSHIP_TIMEOUT)
has_old_transactions(q) == \E i \in 1 .. Len(q) : q[i].old

\* One pass of censorship_checker after a pure timeout.
censorship_checker(st) ==
    IF has_old_transactions(st.queue)
    THEN [Err(request_view_change(st).st, "")
             EXCEPT !.broadcast = request_view_change(st).broadcast]
    ELSE Err(st, "")

\* take_transactions: the transactions are pushed to the end of the queue.
take_transactions(q, txs) == q \o [i \in 1 .. Len(txs) |-> [tx |-> txs[i], old |-> FALSE]]

(* ------------------------------ peer state ----------------------------- *)
\* The state of peer p as the handlers see it.
St(p) ==
    [leader_term |-> leader_term[p], block_number |-> block_number[p],
     round_states |-> round_states[p], view_states |-> view_states[p],
     block_storage |-> block_storage[p], queue |-> queue[p],
     world_state |-> world_state[p]]

\* Peer p's state becomes st.
Store(p, st) ==
    /\ leader_term' = [leader_term EXCEPT ![p] = st.leader_term]
    /\ block_number' = [block_number EXCEPT ![p] = st.block_number]
    /\ round_states' = [round_states EXCEPT ![p] = st.round_states]
    /\ view_states' = [view_states EXCEPT ![p] = st.view_states]
    /\ block_storage' = [block_storage EXCEPT ![p] = st.block_storage]
    /\ queue' = [queue EXCEPT ![p] = st.queue]
    /\ world_state' = [world_state EXCEPT ![p] = st.world_state]

\* The signatures an outcome hands to the other peers: the signed
\* acknowledgement and the signed ViewChange broadcast.  A peer that is the
\* only honest one is not asked for them: the others sign themselves.
Signatures(p, out) ==
    IF honest = {p} THEN {}
    ELSE (IF out.ok /\ out.reply.payload.kind \in {"AckPrepare", "AckAppend"}
          THEN {[signer |-> p, over |-> out.reply.payload]} ELSE {})
         \cup
         (IF out.broadcast.kind = "ViewChange"
          THEN {[signer |-> p, over |-> out.broadcast]} ELSE {})

\* What a call sent: the signed reply (none on an error) and the broadcast.
Sent(out) == [reply |-> out.reply, broadcast |-> out.broadcast]

NothingSent == [reply |-> NoMsg, broadcast |-> NoMsg]

(* ----------------------------- environment ----------------------------- *)
\* The k smallest elements of a set of peers.
FirstK(S, k) == {x \in S : Cardinality({y \in S : y < x}) < k}

\* The peers whose signature over a payload can exist: an honest peer signs
\* only what its handlers sign, any other peer signs anything.
Feasible(payload) ==
    (Peers \ honest) \cup
    {h \in honest : [signer |-> h, over |-> payload] \in signed}

SigMap(S, payload) == [x \in S |-> payload]

\* A signature map with a supermajority of valid signatures of roster members.
GenuineMaps(payload) ==
    LET F == Feasible(payload)
    IN  IF Cardinality(F) >= Quorum
        THEN {SigMap(FirstK(F, Quorum), payload)}
        ELSE {}

\* Signature maps with one fault: too few entries, a signer outside the
\* roster, a signature that does not verify.
FaultyMaps(payload) ==
    LET F == Feasible(payload)
        Q == FirstK(F, Quorum)
    IN  {SigMap(FirstK(F, Quorum - 1), payload)}
        \cup {SigMap(FirstK(F, Quorum - 1) \cup {Outsider}, payload)}
        \cup (IF Cardinality(F) >= Quorum
              THEN {[x \in Q |-> IF \A y \in Q : x <= y THEN Garbage ELSE payload]}
              ELSE {})

\* The hash of the body peer p builds at its next height from a transaction.
NextHash(p, t) ==
    BodyHash(Body(leader_term[p], block_number[p] + 1, last_block_hash(St(p)), <<t>>))

ValidHashes(p) == {NextHash(p, t) : t \in Txs}

\* The hash of a body on another chain.
ForkHash(p) ==
    BodyHash(Body(leader_term[p], block_number[p] + 1, last_block_hash(St(p)) + 1, <<1>>))

Hashes(p) == ValidHashes(p) \cup {ForkHash(p)}

\* Faulty envelopes around a payload: signer not in the roster, signature
\* that does not verify, a roster member that is not the expected sender.
FaultyEnvelopes(sender, m) ==
    {Sign(Outsider, m), Envelope(sender, Garbage, m),
     Envelope(Outsider, Garbage, m), Sign((sender + 1) % Cardinality(Peers), m)}

\* Other coordinates than the current ones: another term (sent by that
\* term's leader), an already committed height, a height after the next.
OtherCoordinates(p) ==
    {<<t, block_number[p] + 1>> : t \in (0 .. MaxTerm) \ {leader_term[p]}}
    \cup (IF block_number[p] > 0 THEN {<<leader_term[p], block_number[p]>>} ELSE {})
    \cup {<<leader_term[p], block_number[p] + 2>>}

PrepareMessages(p) ==
    LET T == leader_term[p]
        bn == block_number[p] + 1
    IN  {Sign(leader(T), MsgPrepare(T, bn, h)) : h \in ValidHashes(p)}
        \cup FaultyEnvelopes(leader(T), MsgPrepare(T, bn, NextHash(p, 1)))
        \cup {Sign(leader(c[1]), MsgPrepare(c[1], c[2], NextHash(p, 1))) :
                 c \in OtherCoordinates(p)}

AppendMessages(p) ==
    LET T == leader_term[p]
        bn == block_number[p] + 1
        h1 == NextHash(p, 1)
        good(h, d) == {MsgAppend(T, bn, h, sigs, d) :
                          sigs \in GenuineMaps(AckPrepare(T, bn, h))}
    IN  {Sign(leader(T), m) :
            m \in UNION {good(h, <<t>>) : h \in Hashes(p), t \in Txs}}
        \cup {Sign(leader(T), MsgAppend(T, bn, h1, sigs, <<1>>)) :
                sigs \in FaultyMaps(AckPrepare(T, bn, h1))}
        \cup {Sign(leader(T), m) :
                m \in UNION {good(h1, d) : d \in {<<>>, <<BadSigTx>>, <<DeniedTx>>}}}
        \cup UNION {FaultyEnvelopes(leader(T), m) : m \in good(h1, <<1>>)}
        \cup {Sign(leader(c[1]),
                   MsgAppend(c[1], c[2], h1,
                             SigMap(FirstK(Peers, Quorum), AckPrepare(c[1], c[2], h1)),
                             <<1>>)) :
                 c \in OtherCoordinates(p)}

CommitMessages(p) ==
    LET T == leader_term[p]
        bn == block_number[p] + 1
        h1 == NextHash(p, 1)
        good(h) == {MsgCommit(T, bn, h, sigs) :
                       sigs \in GenuineMaps(AckAppend(T, bn, h))}
    IN  {Sign(leader(T), m) : m \in UNION {good(h) : h \in Hashes(p)}}
        \cup {Sign(leader(T), MsgCommit(T, bn, h1, sigs)) :
                sigs \in FaultyMaps(AckAppend(T, bn, h1))}
        \cup UNION {FaultyEnvelopes(leader(T), m) : m \in good(h1)}
        \cup {Sign(leader(c[1]),
                   MsgCommit(c[1], c[2], h1,
                             SigMap(FirstK(Peers, Quorum), AckAppend(c[1], c[2], h1)))) :
                 c \in OtherCoordinates(p)}

\* The peers the environment sends ViewChange messages of.
ViewChangeSenders == FirstK(Peers \ honest, 2)

ViewChangeMessages(p) ==
    {Sign(s, ViewChange(leader_term[p] + 1)) : s \in ViewChangeSenders}
    \cup {Sign(Outsider, ViewChange(leader_term[p] + 1)),
          Envelope(0, Garbage, ViewChange(leader_term[p] + 1)),
          Sign(0, ViewChange(leader_term[p]))}

NewViewMessages(p) ==
    UNION {
      LET good == {NewView(t, sigs) : sigs \in GenuineMaps(ViewChange(t))}
          bad == {NewView(t, sigs) : sigs \in FaultyMaps(ViewChange(t))}
      IN  {Sign(leader(t), m) : m \in good \cup bad}
          \cup UNION {FaultyEnvelopes(leader(t), m) : m \in good}
      : t \in 0 .. MaxTerm}

\* Messages handle_message has no handler for.
OtherMessages(p) ==
    {Sign(leader(leader_term[p]), AckCommit)}

(* -------------------------------- actions ------------------------------ *)
\* handle_message of peer p on an inbound message, as one step: the
\* handlers run under the follower-state lock from the first check to the
\* last write.
Deliver(p, message) ==
    LET out == handle_message(St(p), p, message)
    IN  /\ Store(p, out.st)
        /\ signed' = signed \cup Signatures(p, out)
        /\ sent' = Sent(out)
        /\ UNCHANGED <<honest, qvars, tvars>>

DeliverPrepare(p) ==
    /\ block_number[p] < MaxHeight
    /\ \E message \in PrepareMessages(p) :
          /\ follower_state_in_block(St(p), message.payload.block_number)
          /\ Deliver(p, message)

DeliverAppend(p) ==
    /\ block_number[p] < MaxHeight
    /\ \E message \in AppendMessages(p) :
          /\ follower_state_in_block(St(p), message.payload.block_number)
          /\ Deliver(p, message)

DeliverCommit(p) ==
    /\ block_number[p] < MaxHeight
    /\ \E message \in CommitMessages(p) :
          /\ follower_state_in_block(St(p), message.payload.block_number)
          /\ Deliver(p, message)

DeliverViewChange(p) ==
    \E message \in ViewChangeMessages(p) : Deliver(p, message)

DeliverNewView(p) ==
    \E message \in NewViewMessages(p) : Deliver(p, message)

DeliverOther(p) ==
    \E message \in OtherMessages(p) : Deliver(p, message)

\* The censorship watchdog of peer p wakes up by timeout.
Watchdog(p) ==
    LET out == censorship_checker(St(p))
    IN  /\ Store(p, out.st)
        /\ signed' = signed \cup Signatures(p, out)
        /\ sent' = Sent(out)
        /\ UNCHANGED <<honest, qvars, tvars>>

\* A client hands transactions to peer p.
TakeTransactions(p) ==
    /\ Len(queue[p]) < MaxQueue
    /\ \E t \in Txs :
          queue' = [queue EXCEPT ![p] = take_transactions(queue[p], <<t>>)]
    /\ sent' = NothingSent
    /\ UNCHANGED <<honest, fvars, block_storage, world_state, signed, qvars, tvars>>

\* CENSORSHIP_TIMEOUT elapses: every queued transaction is old now.
Tick ==
    /\ \E p \in honest : \E i \in 1 .. Len(queue[p]) : ~queue[p][i].old
    /\ queue' = [p \in Peers |->
                    [i \in 1 .. Len(queue[p]) |-> [queue[p][i] EXCEPT !.old = TRUE]]]
    /\ sent' = NothingSent
    /\ UNCHANGED <<honest, fvars, block_storage, world_state, signed, qvars, tvars>>

\* PRaftBFT::new: asserts that the identity is part of the peers list.
New ==
    /\ constructed = "none"
    /\ constructed' = IF identity_in THEN "ok" ELSE "panic"
    /\ UNCHANGED <<honest, fvars, svars, signed, sent, peers_len, identity_in,
                   number, decision, tvars>>

\* A call of supermajority_reached on a constructed instance.
Ask ==
    /\ constructed = "ok"
    /\ \E k \in 0 .. MaxNumber :
          /\ number' = k
          /\ decision' = supermajority_reached(peers_len, k)
    /\ UNCHANGED <<honest, fvars, svars, signed, sent, peers_len, identity_in,
                   constructed, tvars>>

(* --------------------------------- tasks ------------------------------- *)
\* No holder of a lock.
Free == 0

\* The lock holder that is the censorship checker.
Checker == MaxTasks + 1

\* A receiver of the block-changed channel that has seen no value yet.
Unseen == 0 - 1

\* A slot for a handle_message task that is not running.
IdleTask == [pc |-> "idle", message |-> NoMsg, seen |-> Unseen, out |-> NoMsg]

(* ---------------------------- specifications --------------------------- *)
InitPeers ==
    /\ leader_term = [p \in Peers |-> NewPeerState.leader_term]
    /\ block_number = [p \in Peers |-> NewPeerState.block_number]
    /\ round_states = [p \in Peers |-> NewPeerState.round_states]
    /\ view_states = [p \in Peers |-> NewPeerState.view_states]
    /\ block_storage = [p \in Peers |-> NewPeerState.block_storage]
    /\ queue = [p \in Peers |-> NewPeerState.queue]
    /\ world_state = [p \in Peers |-> NewPeerState.world_state]
    /\ signed = {}
    /\ sent = NothingSent

\* No handler is running, no lock is held, the censorship checker has
\* started its first wait.
InitTasks ==
    /\ tasks = [p \in Peers |-> [i \in 1 .. MaxTasks |-> IdleTask]]
    /\ locks = [p \in Peers |-> [follower |-> Free, queue |-> Free, world |-> Free]]
    /\ watchdog = [p \in Peers |-> [pc |-> "sleep", elapsed |-> FALSE]]
    /\ recent_commit = [p \in Peers |-> FALSE]

InitRoster ==
    /\ peers_len = Cardinality(Peers)
    /\ identity_in = TRUE
    /\ constructed = "ok"
    /\ number = 0
    /\ decision = "none"

\* One follower among peers that may all be faulty.
Init ==
    /\ honest = {MinPeers - 1}
    /\ InitPeers
    /\ InitRoster
    /\ InitTasks

Next ==
    \/ \E p \in honest : DeliverPrepare(p)
    \/ \E p \in honest : DeliverAppend(p)
    \/ \E p \in honest : DeliverCommit(p)
    \/ \E p \in honest : DeliverViewChange(p)
    \/ \E p \in honest : DeliverNewView(p)
    \/ \E p \in honest : DeliverOther(p)
    \/ \E p \in honest : Watchdog(p)
    \/ \E p \in honest : TakeTransactions(p)
    \/ Tick

Spec == Init /\ [][Next]_vars

\* The censorship checker is a task that loops for ever: time passes, and
\* its wait ends by pure timeout again and again (a wake-up by a new view
\* only restarts the wait and changes nothing).
Fairness ==
    /\ WF_vars(Tick)
    /\ WF_vars(\E p \in honest : Watchdog(p))

SpecCensorship == Init /\ [][Next]_vars /\ Fairness

(* ------------------------------ the queue ------------------------------ *)
\* What clients hand over in one call: one transaction, or the same twice.
Batches == {<<t>> : t \in Txs \cup {BadSigTx}} \cup {<<t, t>> : t \in Txs}

\* The transactions of the blocks an honest leader proposes.
ProposedData == {<<t>> : t \in Txs} \cup {<<1, 2>>}

\* The messages of a round of the current leader that proposes data.
RoundMessages(p, data) ==
    LET T == leader_term[p]
        bn == block_number[p] + 1
        h == BodyHash(Body(T, bn, last_block_hash(St(p)), data))
    IN  {Sign(leader(T), MsgPrepare(T, bn, h))}
        \cup {Sign(leader(T), MsgAppend(T, bn, h, sigs, data)) :
                 sigs \in GenuineMaps(AckPrepare(T, bn, h))}
        \cup {Sign(leader(T), MsgCommit(T, bn, h, sigs)) :
                 sigs \in GenuineMaps(AckAppend(T, bn, h))}

\* A client hands a batch of transactions to peer p.
TakeBatch(p) ==
    /\ \E txs \in Batches :
          /\ Len(queue[p]) + Len(txs) <= QueueLen
          /\ queue' = [queue EXCEPT ![p] = take_transactions(queue[p], txs)]
    /\ sent' = NothingSent
    /\ UNCHANGED <<honest, fvars, block_storage, world_state, signed, qvars, tvars>>

\* Peer p receives a message of a round of its leader.
DeliverRound(p) ==
    /\ block_number[p] < QueueHeight
    /\ \E data \in ProposedData : \E message \in RoundMessages(p, data) :
          /\ follower_state_in_block(St(p), message.payload.block_number)
          /\ Deliver(p, message)

NextQueue ==
    \/ \E p \in honest : TakeBatch(p)
    \/ \E p \in honest : DeliverRound(p)
    \/ Tick

\* One follower, its clients and its leader.
SpecQueue == Init /\ [][NextQueue]_vars

\* The quorum predicate on rosters of any size.
InitQuorum ==
    /\ honest = {}
    /\ InitPeers
    /\ peers_len \in 0 .. MaxPeers
    /\ identity_in \in BOOLEAN
    /\ identity_in => peers_len > 0
    /\ constructed = "none"
    /\ number = 0
    /\ decision = "none"
    /\ InitTasks

NextQuorum == New \/ Ask

SpecQuorum == InitQuorum /\ [][NextQuorum]_vars

(* ------------------- a network of three honest followers --------------- *)
\* The block an honest leader proposes: one transaction on top of its chain.
Proposal(l) ==
    Body(leader_term[l], block_number[l] + 1, last_block_hash(St(l)), <<1>>)

\* What an honest leader l of term T sends: one proposal per height, with
\* the acknowledgements it has collected.
HonestLeaderPayloads(l, T) ==
    IF leader_term[l] # T \/ block_number[l] >= NetHeight THEN {}
    ELSE LET bn == Proposal(l).height
             h == BodyHash(Proposal(l))
         IN  {MsgPrepare(T, bn, h)}
             \cup {MsgAppend(T, bn, h, sigs, <<1>>) :
                      sigs \in GenuineMaps(AckPrepare(T, bn, h))}
             \cup {MsgCommit(T, bn, h, sigs) :
                      sigs \in GenuineMaps(AckAppend(T, bn, h))}

\* What a faulty leader of term T may send to peer p: any proposal, other
\* proposals than it sends to others, too few signatures.
FaultyLeaderPayloads(p, T) ==
    LET bn == block_number[p] + 1
    IN  {MsgPrepare(T, bn, h) : h \in ValidHashes(p)}
        \cup UNION {{MsgAppend(T, bn, NextHash(p, t), sigs, <<t>>) :
                        sigs \in GenuineMaps(AckPrepare(T, bn, NextHash(p, t)))} :
                    t \in Txs}
        \cup UNION {{MsgCommit(T, bn, h, sigs) :
                        sigs \in GenuineMaps(AckAppend(T, bn, h))} :
                    h \in ValidHashes(p)}
        \cup {MsgAppend(T, bn, NextHash(p, 1), NoSigs, <<1>>),
              MsgCommit(T, bn, NextHash(p, 1), NoSigs)}

NetBlockMessages(p) ==
    LET T == leader_term[p]
        l == leader(T)
    IN  {Sign(l, m) : m \in IF l \in honest THEN HonestLeaderPayloads(l, T)
                            ELSE FaultyLeaderPayloads(p, T)}

NetNewViewMessages(p) ==
    UNION {{Sign(leader(t), NewView(t, sigs)) : sigs \in GenuineMaps(ViewChange(t))} :
           t \in 1 .. MaxTerm}

\* handle_message of peer p in the network: what the peers sign is kept in
\* `signed`, the reply itself is not observed.
NetDeliver(p, message) ==
    LET out == handle_message(St(p), p, message)
    IN  /\ Store(p, out.st)
        /\ signed' = signed \cup Signatures(p, out)
        /\ UNCHANGED <<honest, sent, qvars, tvars>>

NetDeliverBlock(p) ==
    /\ block_number[p] < NetHeight
    /\ \E message \in NetBlockMessages(p) :
          /\ follower_state_in_block(St(p), message.payload.block_number)
          /\ NetDeliver(p, message)

NetDeliverNewView(p) ==
    \E message \in NetNewViewMessages(p) : NetDeliver(p, message)

\* Three honest followers and one faulty peer, the leader of term 0.
InitNet ==
    /\ honest = Peers \ {0}
    /\ InitPeers
    /\ InitRoster
    /\ InitTasks

NextNet ==
    \/ \E p \in honest : NetDeliverBlock(p)
    \/ \E p \in honest : NetDeliverNewView(p)

SpecNet == InitNet /\ [][NextNet]_vars

(* --------------------------- four honest peers -------------------------- *)
\* The transaction the client submits.
ClientTx == 1

\* The block the leader of term 0 builds from its queue: up to
\* MAX_TRANSACTIONS_PER_BLOCK transactions on top of the empty chain.
FirstBlock ==
    Body(0, 1, DefaultHash,
         SubSeq(<<ClientTx>>, 1, MAX_TRANSACTIONS_PER_BLOCK))

\* The three-phase broadcast of the leader: Prepare, then Append with the
\* AckPrepare signatures it has collected, then Commit with the AckAppend
\* signatures it has collected.
LeaderBroadcast ==
    LET h == BodyHash(FirstBlock)
    IN  {MsgPrepare(0, 1, h)}
        \cup {MsgAppend(0, 1, h, sigs, FirstBlock.transactions) :
                 sigs \in GenuineMaps(AckPrepare(0, 1, h))}
        \cup {MsgCommit(0, 1, h, sigs) : sigs \in GenuineMaps(AckAppend(0, 1, h))}

\* Peer p, the leader included, receives a message of the broadcast.
DeliverBroadcast(p) ==
    \E m \in LeaderBroadcast :
        /\ follower_state_in_block(St(p), m.block_number)
        /\ NetDeliver(p, Sign(leader(0), m))

\* The censorship checker of peer p wakes up by timeout while the round is
\* under way.
HappyWatchdog(p) ==
    LET out == censorship_checker(St(p))
    IN  /\ Store(p, out.st)
        /\ signed' = signed \cup Signatures(p, out)
        /\ UNCHANGED <<honest, sent, qvars, tvars>>

\* Four honest peers after take_transactions has put the client's
\* transaction into the queue of each.
InitHappy ==
    /\ honest = Peers
    /\ leader_term = [p \in Peers |-> NewPeerState.leader_term]
    /\ block_number = [p \in Peers |-> NewPeerState.block_number]
    /\ round_states = [p \in Peers |-> NewPeerState.round_states]
    /\ view_states = [p \in Peers |-> NewPeerState.view_states]
    /\ block_storage = [p \in Peers |-> NewPeerState.block_storage]
    /\ queue = [p \in Peers |-> take_transactions(NewPeerState.queue, <<ClientTx>>)]
    /\ world_state = [p \in Peers |-> NewPeerState.world_state]
    /\ signed = {}
    /\ sent = NothingSent
    /\ InitRoster
    /\ InitTasks

NextHappy ==
    \/ \E p \in honest : DeliverBroadcast(p)
    \/ \E p \in honest : HappyWatchdog(p)

\* Reliable delivery: as long as a message of the broadcast is due at some
\* peer, a message is delivered.
Reliable == WF_vars(\E p \in honest : DeliverBroadcast(p))

SpecHappy == InitHappy /\ [][NextHappy]_vars /\ Reliable

(* --------------------- tasks, locks and the watchdog -------------------- *)
\* Variant of recv_returns for a receiver that waits for the next broadcast
\* whatever it has seen.
recv_returns_on_next(seen, version) == FALSE

\* watch::Receiver::recv: returns at once when the channel holds a version
\* the receiver has not seen, and waits for the next broadcast otherwise.
recv_returns(seen, version) == seen # version

\* The version of the block-changed channel of peer p: the commit path
\* broadcasts once, right after it has written block_number.
block_changed(p) == block_number[p]

\* What a clone of the block-changed receiver has seen: nothing, so that its
\* first recv returns at once, or the value the channel holds.
ClonedReceivers(p) == {Unseen, block_changed(p)}

\* Variant of guard_while_committing that gives the lock back once the
\* round is committed.
guard_until_committed(holder) == Free

\* The follower-state guard that is moved into handle_commit_message_inner
\* lives to the end of the function.
guard_while_committing(holder) == holder

\* Variant of guard_after_request that keeps the lock while broadcasting.
guard_kept_after_request(holder) == holder

\* request_view_change: drop(follower_state) before the broadcast.
guard_after_request(holder) == Free

\* The hash of the block that follows the leader's block of transaction 1.
FutureHash(p) ==
    BodyHash(Body(leader_term[p], block_number[p] + 2, NextHash(p, 1), <<1>>))

\* An Append of the next height whose signature map is one entry short.
ShortAppends(p) ==
    LET T == leader_term[p]
        bn == block_number[p] + 1
        h == BodyHash(Body(T, bn, last_block_hash(St(p)), <<1>>))
        F == Feasible(AckPrepare(T, bn, h))
    IN  {Sign(leader(T), MsgAppend(T, bn, h, SigMap(FirstK(F, Quorum - 1), AckPrepare(T, bn, h)), <<1>>))}

\* The messages sent to a peer that runs its handlers as tasks: the round of
\* the next height, an Append with a short map, and the Prepare of the
\* height after it.
TaskMessages(p) ==
    LET T == leader_term[p]
        bn == block_number[p] + 2
    IN  RoundMessages(p, <<1>>)
        \cup ShortAppends(p)
        \cup (IF bn > TaskHeight + 1 THEN {}
              ELSE {Sign(leader(T), MsgPrepare(T, bn, FutureHash(p)))})

Task(p, i) == tasks[p][i]

SetTask(p, i, task) == tasks' = [tasks EXCEPT ![p][i] = task]

SetLock(p, name, holder) == locks' = [locks EXCEPT ![p][name] = holder]

\* handle_message is called: a task starts in the first idle slot with a
\* clone of the block-changed receiver.
Arrive(p, i) ==
    /\ Task(p, i).pc = "idle"
    /\ \A j \in 1 .. MaxTasks : j < i => Task(p, j).pc # "idle"
    /\ block_number[p] < TaskHeight
    /\ \E m \in TaskMessages(p) : \E seen \in ClonedReceivers(p) :
          SetTask(p, i, [pc |-> "check", message |-> m, seen |-> seen, out |-> NoMsg])
    /\ UNCHANGED <<honest, fvars, svars, signed, sent, qvars, locks, watchdog,
                   recent_commit>>

\* follower_state_in_block: lock, compare, and either return the guard,
\* which drops the receiver, or drop the guard and go to wait on the receiver.
Check(p, i) ==
    /\ Task(p, i).pc = "check"
    /\ locks[p].follower = Free
    /\ IF follower_state_in_block(St(p), Task(p, i).message.payload.block_number)
       THEN /\ SetTask(p, i, [Task(p, i) EXCEPT !.pc = "locked", !.seen = Unseen])
            /\ SetLock(p, "follower", i)
       ELSE /\ SetTask(p, i, [Task(p, i) EXCEPT !.pc = "wait"])
            /\ UNCHANGED locks
    /\ UNCHANGED <<honest, fvars, svars, signed, sent, qvars, watchdog, recent_commit>>

\* receiver.recv().await returns.
Resume(p, i) ==
    /\ Task(p, i).pc = "wait"
    /\ recv_returns(Task(p, i).seen, block_changed(p))
    /\ SetTask(p, i, [Task(p, i) EXCEPT !.pc = "check", !.seen = block_changed(p)])
    /\ UNCHANGED <<honest, fvars, svars, signed, sent, qvars, locks, watchdog,
                   recent_commit>>

\* The handler runs under the follower-state lock.  A handler that commits
\* sets the phase, shifts the ring, writes block_number and broadcasts on
\* the block-changed channel, and goes on to the stores; any other handler
\* changes the follower state and returns, or drops the lock to broadcast
\* the view change it requests.
Handle(p, i) ==
    LET out == handle_message(St(p), p, Task(p, i).message)
    IN  /\ Task(p, i).pc = "locked"
        /\ IF out.st.block_number # block_number[p]
           THEN /\ round_states' = [round_states EXCEPT ![p] = out.st.round_states]
                /\ block_number' = [block_number EXCEPT ![p] = out.st.block_number]
                /\ recent_commit' = [recent_commit EXCEPT ![p] = TRUE]
                /\ SetTask(p, i, [Task(p, i) EXCEPT !.pc = "write", !.out = out])
                /\ SetLock(p, "follower", guard_while_committing(i))
                /\ UNCHANGED <<leader_term, view_states, svars, signed, sent>>
           ELSE /\ Store(p, out.st)
                /\ UNCHANGED recent_commit
                /\ IF out.broadcast # NoMsg
                   THEN /\ SetTask(p, i, [Task(p, i) EXCEPT !.pc = "broadcast", !.out = out])
                        /\ SetLock(p, "follower", guard_after_request(i))
                        /\ UNCHANGED <<signed, sent>>
                   ELSE /\ SetTask(p, i, IdleTask)
                        /\ SetLock(p, "follower", Free)
                        /\ signed' = signed \cup Signatures(p, out)
                        /\ sent' = Sent(out)
        /\ UNCHANGED <<honest, qvars, watchdog>>

\* self.block_storage.write_block(&block)
WriteBlock(p, i) ==
    /\ Task(p, i).pc = "write"
    /\ block_storage' = [block_storage EXCEPT ![p] = Task(p, i).out.st.block_storage]
    /\ SetTask(p, i, [Task(p, i) EXCEPT !.pc = "prune"])
    /\ UNCHANGED <<honest, fvars, queue, world_state, signed, sent, qvars, locks,
                   watchdog, recent_commit>>

\* self.queue.write().await.retain(..): the write lock lasts for the
\* statement.
Prune(p, i) ==
    LET block == block_storage[p][Len(block_storage[p])]
    IN  /\ Task(p, i).pc = "prune"
        /\ locks[p].queue = Free
        /\ queue' = [queue EXCEPT ![p] = Retain(queue[p], block.body.transactions)]
        /\ SetTask(p, i, [Task(p, i) EXCEPT !.pc = "apply"])
        /\ UNCHANGED <<honest, fvars, block_storage, world_state, signed, sent, qvars,
                       locks, watchdog, recent_commit>>

\* self.world_state.get_writable().await, apply_block, save.
ApplyBlock(p, i) ==
    /\ Task(p, i).pc = "apply"
    /\ locks[p].world = Free
    /\ world_state' = [world_state EXCEPT ![p] = Task(p, i).out.st.world_state]
    /\ SetTask(p, i, [Task(p, i) EXCEPT !.pc = "return"])
    /\ SetLock(p, "world", i)
    /\ UNCHANGED <<honest, fvars, block_storage, queue, signed, sent, qvars, watchdog,
                   recent_commit>>

\* The commit path returns: its guards are dropped and the reply is sent.
Return(p, i) ==
    /\ Task(p, i).pc = "return"
    /\ locks' = [locks EXCEPT ![p].world = Free,
                              ![p].follower = IF @ = i THEN Free ELSE @]
    /\ signed' = signed \cup Signatures(p, Task(p, i).out)
    /\ sent' = Sent(Task(p, i).out)
    /\ SetTask(p, i, IdleTask)
    /\ UNCHANGED <<honest, fvars, svars, qvars, watchdog, recent_commit>>

\* The ViewChange of peer p reaches its own handle_message, which takes the
\* follower-state lock to record it.
OwnViewChange(p) == handle_message(St(p), p, Sign(p, ViewChange(leader_term[p] + 1)))

\* broadcast_view_change of a handler: the broadcast is over when the peers,
\* the sender included, have handled the message; then the handler returns.
Broadcast(p, i) ==
    /\ Task(p, i).pc = "broadcast"
    /\ locks[p].follower = Free
    /\ Store(p, OwnViewChange(p).st)
    /\ signed' = signed \cup Signatures(p, Task(p, i).out)
    /\ sent' = Sent(Task(p, i).out)
    /\ SetTask(p, i, IdleTask)
    /\ UNCHANGED <<honest, qvars, locks, watchdog, recent_commit>>

\* The wait of the censorship checker ends by timeout: it takes the read
\* lock of the queue.
WatchdogTimeout(p) ==
    /\ watchdog[p].pc = "sleep"
    /\ watchdog[p].elapsed
    /\ locks[p].queue = Free
    /\ watchdog' = [watchdog EXCEPT ![p].pc = "inspect"]
    /\ SetLock(p, "queue", Checker)
    /\ UNCHANGED <<honest, fvars, svars, signed, sent, qvars, tasks, recent_commit>>

\* The checker looks for old transactions and drops the queue lock; without
\* old transactions it starts its next wait.
WatchdogInspect(p) ==
    /\ watchdog[p].pc = "inspect"
    /\ watchdog' = [watchdog EXCEPT ![p] =
                       IF has_old_transactions(queue[p])
                       THEN [pc |-> "lock", elapsed |-> TRUE]
                       ELSE [pc |-> "sleep", elapsed |-> FALSE]]
    /\ SetLock(p, "queue", Free)
    /\ UNCHANGED <<honest, fvars, svars, signed, sent, qvars, tasks, recent_commit>>

\* self.follower_state.lock().await
WatchdogLock(p) ==
    /\ watchdog[p].pc = "lock"
    /\ locks[p].follower = Free
    /\ watchdog' = [watchdog EXCEPT ![p].pc = "request"]
    /\ SetLock(p, "follower", Checker)
    /\ UNCHANGED <<honest, fvars, svars, signed, sent, qvars, tasks, recent_commit>>

\* request_view_change up to the drop of the guard.
WatchdogRequest(p) ==
    /\ watchdog[p].pc = "request"
    /\ Store(p, request_view_change(St(p)).st)
    /\ watchdog' = [watchdog EXCEPT ![p].pc = "broadcast"]
    /\ SetLock(p, "follower", guard_after_request(Checker))
    /\ UNCHANGED <<honest, signed, sent, qvars, tasks, recent_commit>>

\* broadcast_view_change of the checker, then its next wait.
WatchdogBroadcast(p) ==
    /\ watchdog[p].pc = "broadcast"
    /\ locks[p].follower = Free
    /\ Store(p, OwnViewChange(p).st)
    /\ sent' = [reply |-> NoMsg, broadcast |-> request_view_change(St(p)).broadcast]
    /\ watchdog' = [watchdog EXCEPT ![p] = [pc |-> "sleep", elapsed |-> FALSE]]
    /\ UNCHANGED <<honest, signed, qvars, tasks, locks, recent_commit>>

\* take_transactions under the queue lock.
TaskTake(p) ==
    /\ Len(queue[p]) < MaxQueue
    /\ locks[p].queue = Free
    /\ \E t \in Txs :
          queue' = [queue EXCEPT ![p] = take_transactions(queue[p], <<t>>)]
    /\ UNCHANGED <<honest, fvars, block_storage, world_state, signed, sent, qvars, tvars>>

\* CENSORSHIP_TIMEOUT elapses: every queued transaction is old, every wait
\* of a checker has timed out, no commit is recent.
TaskTick ==
    /\ \E p \in honest :
          \/ \E i \in 1 .. Len(queue[p]) : ~queue[p][i].old
          \/ ~watchdog[p].elapsed
          \/ recent_commit[p]
    /\ queue' = [p \in Peers |->
                    [i \in 1 .. Len(queue[p]) |-> [queue[p][i] EXCEPT !.old = TRUE]]]
    /\ watchdog' = [p \in Peers |->
                       IF p \in honest THEN [watchdog[p] EXCEPT !.elapsed = TRUE]
                       ELSE watchdog[p]]
    /\ recent_commit' = [p \in Peers |-> FALSE]
    /\ UNCHANGED <<honest, fvars, block_storage, world_state, signed, sent, qvars,
                   tasks, locks>>

\* The steps of the handler task in slot i of peer p after its start.
TaskStep(p, i) ==
    \/ Check(p, i)
    \/ Resume(p, i)
    \/ Handle(p, i)
    \/ WriteBlock(p, i)
    \/ Prune(p, i)
    \/ ApplyBlock(p, i)
    \/ Return(p, i)
    \/ Broadcast(p, i)

\* The steps of the censorship checker once its wait has timed out.
CheckerStep(p) ==
    \/ WatchdogInspect(p)
    \/ WatchdogLock(p)
    \/ WatchdogRequest(p)
    \/ WatchdogBroadcast(p)

\* The handler tasks alone.
NextHandlers ==
    \/ \E p \in honest : \E i \in 1 .. MaxTasks : Arrive(p, i)
    \/ \E p \in honest : \E i \in 1 .. MaxTasks : Check(p, i)
    \/ \E p \in honest : \E i \in 1 .. MaxTasks : Resume(p, i)
    \/ \E p \in honest : \E i \in 1 .. MaxTasks : Handle(p, i)
    \/ \E p \in honest : \E i \in 1 .. MaxTasks : WriteBlock(p, i)
    \/ \E p \in honest : \E i \in 1 .. MaxTasks : Prune(p, i)
    \/ \E p \in honest : \E i \in 1 .. MaxTasks : ApplyBlock(p, i)
    \/ \E p \in honest : \E i \in 1 .. MaxTasks : Return(p, i)
    \/ \E p \in honest : \E i \in 1 .. MaxTasks : Broadcast(p, i)

NextTasks ==
    \/ \E p \in honest : \E i \in 1 .. MaxTasks : Arrive(p, i)
    \/ \E p \in honest : \E i \in 1 .. MaxTasks : Check(p, i)
    \/ \E p \in honest : \E i \in 1 .. MaxTasks : Resume(p, i)
    \/ \E p \in honest : \E i \in 1 .. MaxTasks : Handle(p, i)
    \/ \E p \in honest : \E i \in 1 .. MaxTasks : WriteBlock(p, i)
    \/ \E p \in honest : \E i \in 1 .. MaxTasks : Prune(p, i)
    \/ \E p \in honest : \E i \in 1 .. MaxTasks : ApplyBlock(p, i)
    \/ \E p \in honest : \E i \in 1 .. MaxTasks : Return(p, i)
    \/ \E p \in honest : \E i \in 1 .. MaxTasks : Broadcast(p, i)
    \/ \E p \in honest : WatchdogTimeout(p)
    \/ \E p \in honest : WatchdogInspect(p)
    \/ \E p \in honest : WatchdogLock(p)
    \/ \E p \in honest : WatchdogRequest(p)
    \/ \E p \in honest : WatchdogBroadcast(p)
    \/ \E p \in honest : TaskTake(p)
    \/ TaskTick

\* The runtime schedules every task that can run, and the locks are handed
\* out in the order of the requests: a task that can take a step again and
\* again takes it.
FairTasks == \A i \in 1 .. MaxTasks : SF_vars(\E p \in honest : TaskStep(p, i))

\* One follower whose handlers and censorship checker run as tasks.
SpecTasks == Init /\ [][NextTasks]_vars

\* The handler tasks of one follower under a fair scheduler.
SpecHandlers == Init /\ [][NextHandlers]_vars /\ FairTasks

(* ============================== properties ============================= *)
\* The hash peer p has committed at height h.
CommittedHash(p, h) == BlockHashOf(block_storage[p][h])

\* C1 (agreement): any two honest peers that have each committed a block
\* at the same height have committed the same block hash.
Agreement ==
    \A p \in honest, r \in honest :
        \A h \in 1 .. MaxHeight :
            (h <= Len(block_storage[p]) /\ h <= Len(block_storage[r]))
                => CommittedHash(p, h) = CommittedHash(r, h)

\* Within one term two honest peers commit the same hash at a height.
AgreementInTerm ==
    \A p \in honest, r \in honest :
        \A h \in 1 .. MaxHeight :
            (/\ h <= Len(block_storage[p]) /\ h <= Len(block_storage[r])
             /\ block_storage[p][h].body.leader_term = block_storage[r][h].body.leader_term)
                => CommittedHash(p, h) = CommittedHash(r, h)

\* The outcome of handle_message of peer p on a message in p's current state.
Out(p, message) == handle_message(St(p), p, message)

\* The messages for block handling that may reach peer p.
BlockMessages(p) == PrepareMessages(p) \cup AppendMessages(p) \cup CommitMessages(p)

\* C2 (quorum evidence): every persisted block carries a signature map of at
\* least Quorum entries, every entry verifies against AckAppend(term, height,
\* hash) of exactly that block, and every signer is a roster member.
QuorumEvidence ==
    \A p \in honest :
        \A h \in 1 .. Len(block_storage[p]) :
            LET block == block_storage[p][h]
                ack == AckAppend(block.body.leader_term, block.body.height,
                                 BlockHashOf(block))
            IN  /\ 3 * Cardinality(DOMAIN block.signatures) > 2 * Cardinality(Peers)
                /\ \A x \in DOMAIN block.signatures :
                      /\ x \in Peers
                      /\ block.signatures[x] = ack

\* A block has been persisted by a Commit that carried a full signature map.
QuorumEvidenceWitness ==
    \E p \in honest :
        /\ Len(block_storage[p]) >= 1
        /\ Cardinality(DOMAIN block_storage[p][1].signatures) = Quorum

\* C3 (chain integrity): the first persisted block points to the default
\* hash and every later one to the hash of the block persisted before it;
\* an Append is accepted only if the advertised hash is the hash of the body
\* built on the last committed hash.
ChainIntegrity ==
    \A p \in honest :
        /\ \A h \in 1 .. Len(block_storage[p]) :
              block_storage[p][h].body.prev_block_hash =
                 IF h = 1 THEN DefaultHash ELSE BlockHashOf(block_storage[p][h - 1])
        /\ \A m \in AppendMessages(p) :
              Out(p, m).ok =>
                 m.payload.block_hash =
                    BodyHash(Body(m.payload.leader_term, m.payload.block_number,
                                  last_block_hash(St(p)), m.payload.data))

\* Two blocks are persisted, the second on top of the first.
ChainIntegrityWitness ==
    \E p \in honest :
        /\ Len(block_storage[p]) = 2
        /\ block_storage[p][2].body.prev_block_hash = BlockHashOf(block_storage[p][1])
        /\ block_storage[p][2].body.prev_block_hash # DefaultHash

\* The persisted heights of every peer are exactly 1 .. block_number, and no
\* message for another height than block_number + 1 changes block_number.
NoGapPrefix ==
    \A p \in honest :
        /\ Len(block_storage[p]) = block_number[p]
        /\ \A h \in 1 .. Len(block_storage[p]) : block_storage[p][h].body.height = h
        /\ \A m \in BlockMessages(p) :
              Out(p, m).st.block_number # block_number[p]
                 => m.payload.block_number = block_number[p] + 1

\* block_number never decreases and a step that changes it adds 1 and
\* persists one block.
NoGapStep ==
    \A p \in honest :
        /\ block_number'[p] >= block_number[p]
        /\ block_number'[p] # block_number[p] =>
              /\ block_number'[p] = block_number[p] + 1
              /\ Len(block_storage'[p]) = Len(block_storage[p]) + 1

\* C4 (no gap): the committed block number never decreases, every commit
\* increases it by exactly 1, and the persisted heights are the contiguous
\* prefix 1 .. block_number.
NoGap == []NoGapPrefix /\ [][NoGapStep]_vars

\* A peer has committed two heights, one after the other.
NoGapWitness ==
    \E p \in honest : block_number[p] = 2 /\ Len(block_storage[p]) = 2

\* The kind of the reply the last call returned ("None" after an error).
SentKind == IF sent.reply = NoMsg THEN "None" ELSE sent.reply.payload.kind

\* No block message, ViewChange message, view-change request or watchdog
\* pass changes leader_term.
TermKept ==
    \A p \in honest :
        /\ \A m \in BlockMessages(p) \cup ViewChangeMessages(p) \cup OtherMessages(p) :
              Out(p, m).st.leader_term = leader_term[p]
        /\ request_view_change(St(p)).st.leader_term = leader_term[p]
        /\ censorship_checker(St(p)).st.leader_term = leader_term[p]

\* leader_term never decreases, and the step that raises it is the handling
\* of a NewView that was accepted.
TermStep ==
    \A p \in honest :
        /\ leader_term'[p] >= leader_term[p]
        /\ leader_term'[p] # leader_term[p] => SentKind' = "AckNewView"

\* C5 (term monotonicity): leader_term never decreases on any peer; block
\* messages, ViewChange messages, watchdog firings and view-change requests
\* leave it unchanged, and only an accepted NewView raises it.
TermMonotonicity == []TermKept /\ [][TermStep]_vars

\* A peer has requested a view change in term 0, has later accepted the
\* NewView of term 1, and has requested the next view change there.
TermMonotonicityWitness ==
    \E p \in honest :
        /\ leader_term[p] = 1
        /\ view_states[p][1].name = "Changed"
        /\ view_states[p][2].name = "ViewChanging"

\* The rank of a phase in the order Waiting < Prepare < Append < Committed.
PhaseRank(phase) ==
    CASE phase.name = "Waiting" -> 0
      [] phase.name = "Prepare" -> 1
      [] phase.name = "Append" -> 2
      [] phase.name = "Committed" -> 3

\* The round-state of the next height of peer p.
NextRound(p) == round_states[p][1]

\* Within one term and height the phase of the round-state does not go back.
\* A step that commits either starts in phase Append and answers the Commit,
\* or is the handling of an Append (answered with AckAppend) that found the
\* Commit buffered.
PhaseStep ==
    \A p \in honest :
        /\ (leader_term'[p] = leader_term[p] /\ block_number'[p] = block_number[p])
              => \A i \in 1 .. RingSize :
                    PhaseRank(round_states'[p][i].phase)
                       >= PhaseRank(round_states[p][i].phase)
        /\ block_number'[p] # block_number[p]
              => \/ /\ NextRound(p).phase.name = "Append"
                    /\ SentKind' = "AckCommit"
                 \/ /\ NextRound(p).phase.name \in {"Waiting", "Prepare"}
                    /\ NextRound(p).buffered_commit_message # NoMsg
                    /\ SentKind' = "AckAppend"

\* A Commit that arrives in phase Waiting or Prepare is refused with
\* WrongPhase and commits nothing.
CommitNeedsAppend ==
    \A p \in honest :
        NextRound(p).phase.name \in {"Waiting", "Prepare"} =>
            \A m \in CommitMessages(p) :
                /\ ~Out(p, m).ok
                /\ Out(p, m).st.block_number = block_number[p]
                /\ Out(p, m).st.block_storage = block_storage[p]

\* C6 (phase progression): within one term the phase of a round-state moves
\* only forward in Waiting < Prepare < Append < Committed, and a round is
\* committed only from phase Append: a Commit received in Waiting or Prepare
\* is not applied before an Append for that height has been validated.
PhaseProgression == []CommitNeedsAppend /\ [][PhaseStep]_vars

\* A round went Prepare, Append, Committed: the block is persisted and the
\* last reply was AckCommit.
PhaseProgressionWitness ==
    \E p \in honest : block_number[p] = 1 /\ SentKind = "AckCommit"

\* After a commit the ring holds no committed round-state: its slots are the
\* heights after block_number.  No Commit or Append fails the two asserts on
\* the retired slot (it is Committed and holds no buffered Commit).
RingAfterCommit ==
    \A p \in honest :
        /\ Len(round_states[p]) = RingSize
        /\ \A i \in 1 .. RingSize : round_states[p][i].phase.name # "Committed"
        /\ \A m \in BlockMessages(p) : Out(p, m).err # "panic"

\* A commit shifts the ring by one slot and adds a fresh Waiting slot.
RingShift ==
    \A p \in honest :
        block_number'[p] # block_number[p] =>
            /\ round_states'[p][RingSize] = DefaultRoundState
            /\ \A i \in 1 .. (RingSize - 1) :
                  round_states'[p][i] = round_states[p][i + 1]

\* C7 (round-state retirement): after the commit of height h the ring holds
\* no round-state for a height <= h; the retired slot was Committed, and the
\* ring covers the heights from h + 1 on with a fresh Waiting slot added.
RoundStateRetirement == []RingAfterCommit /\ [][RingShift]_vars

\* A height is committed and the round of the next height is under way.
RoundStateRetirementWitness ==
    \E p \in honest : block_number[p] = 1 /\ NextRound(p).phase.name = "Append"

\* C8 (supermajority predicate, rosters of at least four peers): the
\* decision of supermajority_reached(k) is true exactly when
\* k >= floor(2n/3) + 1, that is when 3k > 2n; below four peers no decision
\* is produced.
SupermajorityThreshold ==
    decision # "none" =>
        IF peers_len >= MinPeers
        THEN /\ decision \in {"true", "false"}
             /\ decision = "true" <=> 3 * number > 2 * peers_len
        ELSE decision = "panic"

\* C8 (roster below four peers): the constructor fails for a roster of
\* fewer than four peers.
ConstructorRejectsSmallRoster ==
    (constructed # "none" /\ peers_len < MinPeers) => constructed # "ok"

\* Every message that may reach peer p.
AllMessages(p) ==
    BlockMessages(p) \cup ViewChangeMessages(p) \cup NewViewMessages(p)
        \cup OtherMessages(p)

\* The parts of the follower state a handler may change.
Untouched(p, out) == out.st = St(p) /\ out.broadcast = NoMsg /\ out.reply = NoMsg

\* C9 (message envelope): a message whose signer is not in the roster is
\* rejected with InvalidPeer and a message whose signature does not verify
\* with InvalidSignature, in both cases whatever the follower state is and
\* without changing it or sending anything; every successful reply is
\* signed with the local identity.
MessageEnvelope ==
    \A p \in honest :
        \A m \in AllMessages(p) :
            /\ m.signer \notin Peers =>
                  /\ Out(p, m).err = "InvalidPeer"
                  /\ Untouched(p, Out(p, m))
            /\ (m.signer \in Peers /\ m.signature # m.payload) =>
                  /\ Out(p, m).err = "InvalidSignature"
                  /\ Untouched(p, Out(p, m))
            /\ Out(p, m).ok =>
                  /\ Out(p, m).reply.signer = p
                  /\ Verify(Out(p, m).reply.payload, Out(p, m).reply.signature)

\* A peer in the middle of a round has returned a reply it signed, and both
\* a message of a stranger and a message with a bad signature are at hand.
MessageEnvelopeWitness ==
    \E p \in honest :
        /\ NextRound(p).phase.name = "Prepare"
        /\ sent.reply # NoMsg
        /\ sent.reply.signer = p
        /\ \E m \in AllMessages(p) : Out(p, m).err = "InvalidPeer"
        /\ \E m \in AllMessages(p) :
              m.signer \in Peers /\ Out(p, m).err = "InvalidSignature"

\* The Commit and Append messages for the next height of peer p that both
\* carry the hash h, sent by the current leader with full signature maps.
CommitsFor(p, h) ==
    {m \in CommitMessages(p) :
        /\ m = Sign(leader(leader_term[p]), m.payload)
        /\ m.payload.leader_term = leader_term[p]
        /\ m.payload.block_number = block_number[p] + 1
        /\ m.payload.block_hash = h
        /\ m.payload.signatures \in GenuineMaps(AckAppend(leader_term[p],
                                                          block_number[p] + 1, h))}

AppendsFor(p, h) ==
    {m \in AppendMessages(p) :
        /\ m.payload.leader_term = leader_term[p]
        /\ m.payload.block_number = block_number[p] + 1
        /\ m.payload.block_hash = h}

\* C10 (out-of-order Commit): a valid Commit for height block_number + 1 that
\* arrives before the Append is stored in the round-state, answered with
\* WrongPhase and commits nothing; the matching Append that is accepted
\* then consumes it within its own handling: the height is committed, the
\* block persisted, and the chain is the one reached by Append then Commit
\* (the whole follower state is, if no other Commit was buffered before).
OutOfOrderCommit ==
    \A p \in honest :
        NextRound(p).phase.name \in {"Waiting", "Prepare"} =>
        \A h \in ValidHashes(p) : \A c \in CommitsFor(p, h) :
            LET early == Out(p, c)
            IN  /\ early.err = "WrongPhase"
                /\ early.st.block_number = block_number[p]
                /\ early.st.block_storage = block_storage[p]
                /\ early.st.round_states[1].buffered_commit_message = c.payload
                /\ early.st.round_states[1].phase = NextRound(p).phase
                /\ \A a \in AppendsFor(p, h) :
                      LET inorder == Out(p, a)
                          late == handle_message(early.st, p, a)
                      IN  inorder.ok =>
                            /\ late.ok
                            /\ late.reply.payload = AckAppend(leader_term[p],
                                                       block_number[p] + 1, h)
                            /\ late.st.block_number = block_number[p] + 1
                            /\ BlockHashOf(late.st.block_storage[block_number[p] + 1]) = h
                            /\ late.st.block_storage =
                                  handle_message(inorder.st, p, c).st.block_storage
                            /\ NextRound(p).buffered_commit_message = NoMsg
                                  => late.st = handle_message(inorder.st, p, c).st

\* The reply to an Append acknowledges a height that is already committed:
\* the Append found the Commit buffered and applied it.
OutOfOrderCommitWitness ==
    \E p \in honest :
        /\ SentKind = "AckAppend"
        /\ sent.reply.payload.block_number = block_number[p]
        /\ Len(block_storage[p]) = block_number[p]
        /\ BlockHashOf(block_storage[p][block_number[p]]) = sent.reply.payload.block_hash

\* The Append messages of the current leader of peer p, signed by it, for
\* the current term and the next height.
CurrentAppends(p) ==
    {m \in AppendMessages(p) :
        /\ m = Sign(leader(leader_term[p]), m.payload)
        /\ m.payload.leader_term = leader_term[p]
        /\ m.payload.block_number = block_number[p] + 1}

\* The phase of the next round admits an Append with hash h.
PhaseAdmits(p, h) ==
    \/ NextRound(p).phase.name = "Waiting"
    \/ NextRound(p).phase.name = "Prepare" /\ NextRound(p).phase.block_hash = h

\* The signature map of a message holds a supermajority of signatures of
\* roster members that verify against the acknowledgement.
FullMap(sigs, ack) ==
    /\ 3 * Cardinality(DOMAIN sigs) > 2 * Cardinality(Peers)
    /\ \A x \in DOMAIN sigs : x \in Peers /\ sigs[x] = ack

\* The outcome requested a view change for the term after peer p's: the
\* view-state of that term is ViewChanging and ViewChange was broadcast.
ViewChangeRequested(p, out) ==
    /\ out.st.view_states[leader_term[p] + 1].name = "ViewChanging"
    /\ out.broadcast = ViewChange(leader_term[p] + 1)

\* The outcome left the round-states, the committed height and the stores
\* of peer p as they were.
RoundKept(p, out) ==
    /\ out.st.round_states = round_states[p]
    /\ out.st.block_number = block_number[p]
    /\ out.st.leader_term = leader_term[p]
    /\ out.st.block_storage = block_storage[p]
    /\ out.st.queue = queue[p]
    /\ out.st.world_state = world_state[p]

\* C11 (empty-block proposal): an Append of the current leader for height
\* block_number + 1 that passes the phase, hash and AckPrepare-signature
\* checks but carries no transaction is answered with EmptyBlock, leaves the
\* round phase and the stores unchanged, sets the view-state of the next
\* term to ViewChanging and broadcasts ViewChange for it.
EmptyBlockProposal ==
    \A p \in honest :
        \A m \in CurrentAppends(p) :
            (/\ PhaseAdmits(p, m.payload.block_hash)
             /\ FullMap(m.payload.signatures,
                        AckPrepare(m.payload.leader_term, m.payload.block_number,
                                   m.payload.block_hash))
             /\ m.payload.data = <<>>)
            => /\ Out(p, m).err = "EmptyBlock"
               /\ ~Out(p, m).ok
               /\ RoundKept(p, Out(p, m))
               /\ ViewChangeRequested(p, Out(p, m))

\* A follower in phase Prepare has an empty Append at hand and has already
\* broadcast a ViewChange after refusing a proposal.
EmptyBlockProposalWitness ==
    \E p \in honest :
        /\ NextRound(p).phase.name = "Prepare"
        /\ sent.broadcast = ViewChange(leader_term[p] + 1)
        /\ \E m \in CurrentAppends(p) :
              m.payload.data = <<>> /\ Out(p, m).err = "EmptyBlock"

\* The Commit messages of the current leader of peer p, signed by it, for
\* the current term and the next height.
CurrentCommits(p) ==
    {m \in CommitMessages(p) :
        /\ m = Sign(leader(leader_term[p]), m.payload)
        /\ m.payload.leader_term = leader_term[p]
        /\ m.payload.block_number = block_number[p] + 1}

\* The signature map holds fewer entries than a supermajority.
ShortMap(sigs) == 3 * Cardinality(DOMAIN sigs) <= 2 * Cardinality(Peers)

\* C12 (signature-short messages): an Append whose AckPrepare map and a
\* Commit in phase Append whose AckAppend map holds fewer than a
\* supermajority of entries is answered with NotEnoughSignatures, requests a
\* view change for the next term and leaves the round phase and the
\* committed height unchanged.
SignatureShort ==
    \A p \in honest :
        /\ \A m \in CurrentAppends(p) :
              (PhaseAdmits(p, m.payload.block_hash) /\ ShortMap(m.payload.signatures))
              => /\ Out(p, m).err = "NotEnoughSignatures"
                 /\ RoundKept(p, Out(p, m))
                 /\ ViewChangeRequested(p, Out(p, m))
        /\ \A m \in CurrentCommits(p) :
              (/\ NextRound(p).phase.name = "Append"
               /\ NextRound(p).phase.block_hash = m.payload.block_hash
               /\ ShortMap(m.payload.signatures))
              => /\ Out(p, m).err = "NotEnoughSignatures"
                 /\ RoundKept(p, Out(p, m))
                 /\ ViewChangeRequested(p, Out(p, m))

\* A follower in phase Append has refused a short Commit: the view change is
\* requested, the phase is still Append, and a short Commit is at hand.
SignatureShortWitness ==
    \E p \in honest :
        /\ NextRound(p).phase.name = "Append"
        /\ sent.reply = NoMsg
        /\ sent.broadcast = ViewChange(leader_term[p] + 1)
        /\ \E m \in CurrentCommits(p) :
              ShortMap(m.payload.signatures) /\ Out(p, m).err = "NotEnoughSignatures"

\* The body a follower recomputes from an Append: its own last block hash,
\* the message's term and height, and the transactions as sent.
RecomputedHash(p, m) ==
    BodyHash(Body(m.payload.leader_term, m.payload.block_number,
                  last_block_hash(St(p)), m.payload.data))

\* An Append of the current leader that passes every check up to the
\* comparison of the advertised with the recomputed block hash.
ReachesHashCheck(p, m) ==
    /\ PhaseAdmits(p, m.payload.block_hash)
    /\ FullMap(m.payload.signatures,
               AckPrepare(leader_term[p], block_number[p] + 1, m.payload.block_hash))
    /\ m.payload.data # <<>>
    /\ TransactionScan(m.payload.data) = "Ok"

\* C13 (chain fork refusal): an Append whose block_hash differs from the hash
\* the follower recomputes is answered with WrongBlockHash; the round phase
\* stays Waiting or Prepare as it was, the committed height stays, and
\* nothing is written to the block store, the queue or the world state.
ChainForkRefusal ==
    \A p \in honest : \A m \in CurrentAppends(p) :
        (ReachesHashCheck(p, m) /\ m.payload.block_hash # RecomputedHash(p, m))
        => /\ Out(p, m).err = "WrongBlockHash"
           /\ ~Out(p, m).ok
           /\ Out(p, m).st.round_states = round_states[p]
           /\ NextRound(p).phase.name \in {"Waiting", "Prepare"}
           /\ Out(p, m).st.block_number = block_number[p]
           /\ Out(p, m).st.block_storage = block_storage[p]
           /\ Out(p, m).st.queue = queue[p]
           /\ Out(p, m).st.world_state = world_state[p]

\* A follower in phase Prepare holds a block and a queued transaction, and
\* an Append for the prepared hash with other transactions is at hand.
ChainForkRefusalWitness ==
    \E p \in honest :
        /\ NextRound(p).phase.name = "Prepare"
        /\ block_storage[p] # <<>>
        /\ queue[p] # <<>>
        /\ \E m \in CurrentAppends(p) :
              /\ ReachesHashCheck(p, m)
              /\ m.payload.block_hash # RecomputedHash(p, m)
              /\ Out(p, m).err = "WrongBlockHash"

\* The Appends of the current leader that change the hash recorded at
\* Prepare, and its Commits that change the hash recorded at Append.
ChangedHashMessages(p) ==
    {m \in CurrentAppends(p) :
        /\ NextRound(p).phase.name = "Prepare"
        /\ m.payload.block_hash # NextRound(p).phase.block_hash}
    \cup
    {m \in CurrentCommits(p) :
        /\ NextRound(p).phase.name = "Append"
        /\ m.payload.block_hash # NextRound(p).phase.block_hash}

\* A changed hash is answered with ChangedBlockHash and changes nothing.
ChangedBlockHashReturned ==
    \A p \in honest : \A m \in ChangedHashMessages(p) :
        Out(p, m).err = "ChangedBlockHash" /\ Untouched(p, Out(p, m))

\* C14 (ChangedBlockHash recovery): an Append whose block_hash differs from
\* the hash recorded at Prepare, or a Commit whose block_hash differs from
\* the one recorded at Append, is answered with ChangedBlockHash and the
\* follower initiates a view change: the view-state of the next term becomes
\* ViewChanging and ViewChange is broadcast.
ChangedBlockHashRecovery ==
    \A p \in honest : \A m \in ChangedHashMessages(p) :
        /\ Out(p, m).err = "ChangedBlockHash"
        /\ ViewChangeRequested(p, Out(p, m))

\* The errors for a wrong sender and for stale or future coordinates.
StaleErrors == {"WrongLeader", "WrongLeaderTerm", "WrongBlockNumber"}

\* C15 (stale, future or wrong-sender messages change nothing): a Prepare,
\* Append or Commit rejected with WrongLeader, WrongLeaderTerm or
\* WrongBlockNumber leaves every round-state phase, every buffered Commit,
\* the view-states, leader_term, the committed height, the queue and the
\* block store unchanged, and requests no view change.
StaleMessagesChangeNothing ==
    \A p \in honest : \A m \in BlockMessages(p) :
        Out(p, m).err \in StaleErrors
        => /\ ~Out(p, m).ok
           /\ Out(p, m).st.round_states = round_states[p]
           /\ Out(p, m).st.view_states = view_states[p]
           /\ Out(p, m).st.leader_term = leader_term[p]
           /\ Out(p, m).st.block_number = block_number[p]
           /\ Out(p, m).st.queue = queue[p]
           /\ Out(p, m).st.block_storage = block_storage[p]
           /\ Out(p, m).broadcast = NoMsg
           /\ Out(p, m).reply = NoMsg

\* A follower with a committed block, a queued transaction and a round in
\* phase Prepare has messages of all three kinds at hand: one of a wrong
\* sender, one of another term and one for the committed height.
StaleMessagesChangeNothingWitness ==
    \E p \in honest :
        /\ block_number[p] > 0
        /\ queue[p] # <<>>
        /\ NextRound(p).phase.name = "Prepare"
        /\ \E m \in PrepareMessages(p) : Out(p, m).err = "WrongLeader"
        /\ \E m \in AppendMessages(p) : Out(p, m).err = "WrongLeaderTerm"
        /\ \E m \in CommitMessages(p) :
              /\ m.payload.block_number = block_number[p]
              /\ Out(p, m).err = "WrongBlockNumber"

\* The view change against the current leader of peer p is requested.
ViewChangeBroadcast(p) ==
    /\ view_states[p][leader_term[p] + 1].name = "ViewChanging"
    /\ sent.broadcast = ViewChange(leader_term[p] + 1)

\* A pass of the censorship checker requests the view change for the next
\* term exactly if a queued transaction is old, and else changes nothing.
WatchdogStep ==
    \A p \in honest :
        Watchdog(p) =>
            IF \E i \in 1 .. Len(queue[p]) : queue[p][i].old
            THEN /\ view_states'[p][leader_term[p] + 1].name = "ViewChanging"
                 /\ sent'.broadcast = ViewChange(leader_term[p] + 1)
                 /\ leader_term'[p] = leader_term[p]
            ELSE /\ sent' = NothingSent
                 /\ view_states'[p] = view_states[p]
                 /\ leader_term'[p] = leader_term[p]

\* Transaction t is in the queue of the honest peer p.
Queued(p, t) == p \in honest /\ \E i \in 1 .. Len(queue[p]) : queue[p][i].tx = t

\* C16 (censorship watchdog): on a pure timeout the watchdog requests a view
\* change for leader_term + 1 if and only if a queued transaction is older
\* than CENSORSHIP_TIMEOUT; with an empty or fresh queue nothing is
\* requested; and a transaction that stays queued leads to a ViewChange
\* broadcast.
CensorshipWatchdog ==
    /\ [][WatchdogStep]_vars
    /\ \A p \in Peers : \A t \in Txs :
          Queued(p, t) ~> (~Queued(p, t) \/ ViewChangeBroadcast(p))

\* A transaction is old and still queued, no block is committed, and the
\* view change against the leader is requested.
CensorshipWatchdogWitness ==
    \E p \in honest :
        /\ \E i \in 1 .. Len(queue[p]) : queue[p][i].old
        /\ block_number[p] = 0
        /\ NextRound(p).phase.name = "Waiting"
        /\ sent.reply = NoMsg
        /\ ViewChangeBroadcast(p)

\* How often transaction t is in a sequence of queue entries.
Entries(q, t) == Cardinality({i \in 1 .. Len(q) : q[i].tx = t})

\* How often transaction t is in a sequence of transactions.
Occurrences(txs, t) == Cardinality({i \in 1 .. Len(txs) : txs[i] = t})

\* The entries of q for transactions that are not in txs, in q's order.
Without(q, txs) ==
    LET Other(e) == \A i \in 1 .. Len(txs) : txs[i] # e.tx
    IN  SelectSeq(q, Other)

\* An insertion appends one entry per transaction handed over, equal ones
\* included, behind the entries that are there.
InsertStep(p) ==
    Len(queue'[p]) > Len(queue[p])
    => \E txs \in Batches :
          /\ Len(queue'[p]) = Len(queue[p]) + Len(txs)
          /\ SubSeq(queue'[p], 1, Len(queue[p])) = queue[p]
          /\ \A t \in AllTxs :
                Entries(queue'[p], t) = Entries(queue[p], t) + Occurrences(txs, t)

\* A commit leaves the queue without the entries of the block's
\* transactions; a step that does not commit removes nothing.
PruneStep(p) ==
    IF block_number'[p] # block_number[p]
    THEN queue'[p] = Without(queue[p], block_storage'[p][Len(block_storage'[p])].body.transactions)
    ELSE Len(queue'[p]) >= Len(queue[p])

\* C17 (queue law): inserting the same transaction twice yields exactly two
\* queue entries, and after a block commits the queue equals the pre-commit
\* queue minus the entries for the transactions of that block, all other
\* entries kept in their FIFO order.
QueueLaw == [][\A p \in honest : InsertStep(p) /\ PruneStep(p)]_vars

\* A commit has just pruned the queue and left two entries of one
\* transaction behind an entry of another.
QueueLawWitness ==
    \E p \in honest :
        /\ sent.reply # NoMsg
        /\ sent.reply.payload = AckCommit
        /\ Len(queue[p]) = 2
        /\ queue[p][1].tx = queue[p][2].tx
        /\ block_storage[p][Len(block_storage[p])].body.transactions # <<queue[p][1].tx>>

\* Peer p has committed the first block: committed height 1, the block with
\* the client's transaction persisted, the transaction out of its queue.
Done(p) ==
    /\ block_number[p] = 1
    /\ Len(block_storage[p]) = 1
    /\ block_storage[p][1].body = FirstBlock
    /\ ClientTx \in {FirstBlock.transactions[i] : i \in 1 .. Len(FirstBlock.transactions)}
    /\ \A i \in 1 .. Len(queue[p]) : queue[p][i].tx # ClientTx

\* No peer has requested a view change.
NoViewChange ==
    /\ \A p \in Peers : \A t \in ViewTerms : view_states[p][t] = ViewWaiting
    /\ \A p \in Peers : leader_term[p] = 0
    /\ \A x \in signed : x.over.kind # "ViewChange"

\* C18 (happy path liveness): with four honest peers, the leader P0 of term
\* 0, one client transaction and reliable delivery, the exchange of Prepare,
\* Append and Commit with their acknowledgements eventually leaves every
\* peer with committed height 1, block 1 with the transaction persisted and
\* the transaction out of the queue, and no view change is ever requested.
HappyPath == <>[](\A p \in Peers : Done(p)) /\ []NoViewChange

\* Every peer has committed block 1 with quorum evidence signed by peers
\* that have acknowledged the Append.
HappyPathWitness ==
    /\ honest = Peers
    /\ \A p \in Peers : Done(p) /\ world_state[p] = <<ClientTx>> /\ queue[p] = <<>>
    /\ NoViewChange

\* The Prepare messages of the current leader of peer p, signed by it, for
\* the current term and the next height.
CurrentPrepares(p) ==
    {m \in PrepareMessages(p) :
        /\ m = Sign(leader(leader_term[p]), m.payload)
        /\ m.payload.leader_term = leader_term[p]
        /\ m.payload.block_number = block_number[p] + 1}

\* A Prepare is taken in phase Waiting only: the round records the leader
\* and the hash and AckPrepare for them is the reply.  In any other phase
\* the answer is WrongPhase and nothing changes.
PrepareLaw ==
    \A p \in honest : \A m \in CurrentPrepares(p) :
        IF NextRound(p).phase.name = "Waiting"
        THEN /\ Out(p, m).ok
             /\ Out(p, m).st.round_states[1].phase
                   = PhasePrepare(leader(leader_term[p]), m.payload.block_hash)
             /\ Out(p, m).reply.payload
                   = AckPrepare(leader_term[p], block_number[p] + 1, m.payload.block_hash)
             /\ Out(p, m).reply.signer = p
        ELSE /\ Out(p, m).err = "WrongPhase"
             /\ Untouched(p, Out(p, m))

\* AckPrepare is sent out of phase Waiting only and for the hash that is
\* recorded then; while the term and the height stay, a round does not
\* return to Waiting and a recorded hash stays.
PrepareStep ==
    \A p \in honest :
        /\ SentKind' = "AckPrepare"
           => /\ NextRound(p).phase.name = "Waiting"
              /\ NextRound(p)'.phase.name = "Prepare"
              /\ sent'.reply.payload
                    = AckPrepare(leader_term[p], block_number[p] + 1,
                                 NextRound(p)'.phase.block_hash)
        /\ (/\ leader_term'[p] = leader_term[p]
            /\ block_number'[p] = block_number[p]
            /\ NextRound(p).phase.name # "Waiting")
           => /\ NextRound(p)'.phase.name # "Waiting"
              /\ NextRound(p)'.phase.block_hash = NextRound(p).phase.block_hash

\* C19 (Prepare transition): a Prepare of the current leader for the current
\* term and the next height is accepted only in phase Waiting, records
\* Prepare{leader, block_hash} and is answered with AckPrepare(term, height,
\* hash); in phase Prepare, Append or Committed it is answered with
\* WrongPhase and the recorded hash stays, so that a follower acknowledges at
\* most one hash per height and term at Prepare.
PrepareTransition == []PrepareLaw /\ [][PrepareStep]_vars

\* A follower has acknowledged a Prepare and a Prepare for another hash is
\* at hand, which it refuses.
PrepareTransitionWitness ==
    \E p \in honest :
        /\ NextRound(p).phase.name = "Prepare"
        /\ SentKind = "AckPrepare"
        /\ sent.reply.payload.block_hash = NextRound(p).phase.block_hash
        /\ \E m \in CurrentPrepares(p) :
              /\ m.payload.block_hash # NextRound(p).phase.block_hash
              /\ Out(p, m).err = "WrongPhase"

\* The Append phase a valid Append m leaves in the next round of peer p.
AppendedPhase(p, m) ==
    PhaseAppend([leader |-> leader(leader_term[p]), block_hash |-> m.payload.block_hash],
                Body(leader_term[p], block_number[p] + 1, last_block_hash(St(p)),
                     m.payload.data))

\* A fully valid Append is taken in phase Waiting and in phase Prepare with
\* the same hash: AckAppend is the reply and the round is in phase Append
\* (a buffered Commit is applied then and may commit the round at once).
\* In phase Append every Append is answered with WrongPhase and changes
\* nothing.
AppendLaw ==
    \A p \in honest : \A m \in CurrentAppends(p) :
        /\ (ReachesHashCheck(p, m) /\ m.payload.block_hash = RecomputedHash(p, m))
           => /\ Out(p, m).ok
              /\ Out(p, m).reply.signer = p
              /\ Out(p, m).reply.payload
                    = AckAppend(leader_term[p], block_number[p] + 1, m.payload.block_hash)
              /\ NextRound(p).buffered_commit_message = NoMsg
                 => /\ Out(p, m).st.round_states[1].phase = AppendedPhase(p, m)
                    /\ Out(p, m).st.block_number = block_number[p]
              /\ \/ Out(p, m).st.round_states[1].phase = AppendedPhase(p, m)
                 \/ /\ Out(p, m).st.block_number = block_number[p] + 1
                    /\ last_block_hash(Out(p, m).st) = m.payload.block_hash
        /\ NextRound(p).phase.name \notin {"Waiting", "Prepare"}
           => /\ Out(p, m).err = "WrongPhase"
              /\ Untouched(p, Out(p, m))

\* AckAppend is sent out of the phases Waiting and Prepare only, for the
\* hash the round holds from then on; a round in phase Append stays there
\* with its hash while the term and the height stay.
AppendStep ==
    \A p \in honest :
        /\ SentKind' = "AckAppend"
           => /\ NextRound(p).phase.name \in {"Waiting", "Prepare"}
              /\ NextRound(p).phase.name = "Prepare"
                 => sent'.reply.payload.block_hash = NextRound(p).phase.block_hash
              /\ sent'.reply.payload.leader_term = leader_term[p]
              /\ sent'.reply.payload.block_number = block_number[p] + 1
              /\ \/ /\ NextRound(p)'.phase.name = "Append"
                    /\ NextRound(p)'.phase.block_hash = sent'.reply.payload.block_hash
                    /\ block_number'[p] = block_number[p]
                 \/ /\ block_number'[p] = block_number[p] + 1
                    /\ last_block_hash(St(p))' = sent'.reply.payload.block_hash
        /\ (/\ leader_term'[p] = leader_term[p]
            /\ block_number'[p] = block_number[p]
            /\ NextRound(p).phase.name = "Append")
           => NextRound(p)'.phase = NextRound(p).phase

\* C20 (Append transition phases): a fully valid Append is accepted in phase
\* Waiting and in phase Prepare with the same hash, moves the round to
\* Append{meta, body} and is answered with AckAppend(term, height, hash); an
\* Append for a round in phase Append or Committed is answered with
\* WrongPhase and changes nothing, so that a follower sends at most one
\* AckAppend per height and term.
AppendTransition == []AppendLaw /\ [][AppendStep]_vars

\* A follower has acknowledged an Append, and an Append for another block
\* with a full signature map and a matching hash is at hand, which it refuses.
AppendTransitionWitness ==
    \E p \in honest :
        /\ NextRound(p).phase.name = "Append"
        /\ SentKind = "AckAppend"
        /\ sent.reply.payload.block_hash = NextRound(p).phase.block_hash
        /\ \E m \in CurrentAppends(p) :
              /\ m.payload.block_hash # NextRound(p).phase.block_hash
              /\ FullMap(m.payload.signatures,
                         AckPrepare(leader_term[p], block_number[p] + 1,
                                    m.payload.block_hash))
              /\ m.payload.block_hash = RecomputedHash(p, m)
              /\ Out(p, m).err = "WrongPhase"

\* The current-leader Appends and Commits of peer p that reach the check of
\* their acknowledgement signatures, each with the Ack payload its map is
\* checked against.
ReachSignatureCheck(p) ==
    {<<m, AckPrepare(leader_term[p], block_number[p] + 1, m.payload.block_hash)>> :
        m \in {a \in CurrentAppends(p) : PhaseAdmits(p, a.payload.block_hash)}}
    \cup
    {<<m, AckAppend(leader_term[p], block_number[p] + 1, m.payload.block_hash)>> :
        m \in {c \in CurrentCommits(p) :
                  /\ NextRound(p).phase.name = "Append"
                  /\ NextRound(p).phase.block_hash = c.payload.block_hash}}

\* A signature of the map does not verify against the Ack payload.
BadSignature(sigs, ack) == \E x \in DOMAIN sigs : sigs[x] # ack

\* A signer of the map is not a roster member.
UnknownSigner(sigs) == \E x \in DOMAIN sigs : x \notin Peers

\* The follower refuses the message, requests the view change and keeps
\* the round.
Recovered(p, m) ==
    /\ ~Out(p, m).ok
    /\ RoundKept(p, Out(p, m))
    /\ ViewChangeRequested(p, Out(p, m))

\* A map that is too small and a signature that does not verify are
\* answered with a view-change request; a signer outside the roster is
\* answered with PermissionDenied and the round is kept.
SignatureFailureReturned ==
    \A p \in honest : \A c \in ReachSignatureCheck(p) :
        LET m == c[1]
            sigs == c[1].payload.signatures
        IN  /\ ShortMap(sigs) => Out(p, m).err = "NotEnoughSignatures" /\ Recovered(p, m)
            /\ (~ShortMap(sigs) /\ BadSignature(sigs, c[2]))
               => Out(p, m).err = "InvalidSignature" /\ Recovered(p, m)
            /\ (~ShortMap(sigs) /\ ~BadSignature(sigs, c[2]) /\ UnknownSigner(sigs))
               => /\ Out(p, m).err = "PermissionDenied"
                  /\ RoundKept(p, Out(p, m))

\* C21 (acknowledgement-signature failures): for an Append (AckPrepare map)
\* and for a Commit (AckAppend map), a map below the supermajority, a
\* signature that does not verify against the canonical Ack payload and a
\* signer that is not a roster member each make the follower request a view
\* change for the next term and return the failure without advancing the
\* round phase.
SignatureFailureRecovery ==
    \A p \in honest : \A c \in ReachSignatureCheck(p) :
        (\/ ShortMap(c[1].payload.signatures)
         \/ BadSignature(c[1].payload.signatures, c[2])
         \/ UnknownSigner(c[1].payload.signatures))
        => Recovered(p, c[1])

\* A buffered Commit is one Commit message, and its slot is in phase Waiting
\* or Prepare.
BufferedInEarlyPhase ==
    \A p \in honest : \A i \in 1 .. RingSize :
        LET slot == round_states[p][i]
        IN  slot.buffered_commit_message # NoMsg
            => /\ slot.buffered_commit_message.kind = "Commit"
               /\ slot.phase.name \in {"Waiting", "Prepare"}

\* No message makes an assertion of the commit path fail.
AssertionsHold ==
    \A p \in honest : \A m \in AllMessages(p) : Out(p, m).err # "panic"

\* The step that validates an Append takes the buffered Commit: whether the
\* round is in phase Append or committed afterwards, no slot in phase
\* Append or later holds a buffered Commit, and the slot that follows a
\* committed one starts without one.
BufferStep ==
    \A p \in honest :
        SentKind' = "AckAppend"
        => /\ NextRound(p)'.phase.name = "Append"
              => NextRound(p)'.buffered_commit_message = NoMsg
           /\ block_number'[p] # block_number[p]
              => /\ NextRound(p).buffered_commit_message # NoMsg
                 /\ round_states'[p][RingSize] = DefaultRoundState

\* C23 (commit buffer invariant): a slot holds at most one buffered Commit,
\* only while its phase is Waiting or Prepare, and the Commit is consumed
\* when the Append is validated; so the slot the ring shift retires is in
\* phase Committed without a buffered Commit and the two assertions of the
\* commit path never fail.
CommitBuffer == [](BufferedInEarlyPhase /\ AssertionsHold) /\ [][BufferStep]_vars

\* An Append has just consumed a buffered Commit and committed the round:
\* the assertions on the retired slot have passed.
CommitBufferWitness ==
    \E p \in honest :
        /\ SentKind = "AckAppend"
        /\ block_number[p] = sent.reply.payload.block_number
        /\ Len(block_storage[p]) = block_number[p]
        /\ NextRound(p) = DefaultRoundState

\* The Appends of the current leader that pass all their own validations.
ValidAppends(p) ==
    {m \in CurrentAppends(p) :
        ReachesHashCheck(p, m) /\ m.payload.block_hash = RecomputedHash(p, m)}

\* The buffered Commit b is one for the block of Append m with a full map of
\* valid AckAppend signatures of roster members.
BufferedCommitPasses(p, m, b) ==
    /\ b.leader_term = leader_term[p]
    /\ b.block_number = block_number[p] + 1
    /\ b.block_hash = m.payload.block_hash
    /\ FullMap(b.signatures,
               AckAppend(leader_term[p], block_number[p] + 1, m.payload.block_hash))

\* C27 (AckAppend whatever the buffered Commit does): an Append that has
\* passed all its own validations is answered with AckAppend; a buffered
\* Commit that fails its checks is discarded, the round stays in phase
\* Append and the committed height stays (a view change may be requested);
\* a buffered Commit that passes commits the round, and the reply is still
\* AckAppend and not AckCommit.
AckAppendRegardless ==
    \A p \in honest : \A m \in ValidAppends(p) :
        LET b == NextRound(p).buffered_commit_message
            out == Out(p, m)
        IN  b # NoMsg =>
            /\ out.ok
            /\ out.err = ""
            /\ out.reply.payload
                  = AckAppend(leader_term[p], block_number[p] + 1, m.payload.block_hash)
            /\ IF BufferedCommitPasses(p, m, b)
               THEN /\ out.st.block_number = block_number[p] + 1
                    /\ Len(out.st.block_storage) = Len(block_storage[p]) + 1
                    /\ out.st.block_storage[Len(out.st.block_storage)]
                          = [body |-> AppendedPhase(p, m).body, signatures |-> b.signatures]
                    /\ out.broadcast = NoMsg
               ELSE /\ out.st.block_number = block_number[p]
                    /\ out.st.block_storage = block_storage[p]
                    /\ out.st.round_states[1].phase = AppendedPhase(p, m)
                    /\ out.st.round_states[1].buffered_commit_message = NoMsg
                    /\ out.st.leader_term = leader_term[p]
                    /\ out.broadcast \in {NoMsg, ViewChange(leader_term[p] + 1)}

\* An Append has been acknowledged, its round is in phase Append without a
\* buffered Commit, and the view change that the failed buffered Commit
\* asked for is broadcast.
AckAppendRegardlessWitness ==
    \E p \in honest :
        /\ SentKind = "AckAppend"
        /\ sent.broadcast = ViewChange(leader_term[p] + 1)
        /\ NextRound(p).phase.name = "Append"
        /\ NextRound(p).buffered_commit_message = NoMsg
        /\ block_number[p] + 1 = sent.reply.payload.block_number

\* The transactions of a sequence of blocks, in order.
RECURSIVE Applied(_)
Applied(blocks) ==
    IF blocks = <<>> THEN <<>>
    ELSE Applied(SubSeq(blocks, 1, Len(blocks) - 1)) \o blocks[Len(blocks)].body.transactions

\* The handler in slot i of peer p is between the commit of a round and its
\* return.
Committing(p, i) == Task(p, i).pc \in {"write", "prune", "apply", "return"}

\* A committing handler holds the follower-state lock, at most one handler
\* runs under it, and whoever else may take the lock finds every committed
\* block persisted and applied.
CommitUnderLock ==
    \A p \in honest :
        /\ \A i \in 1 .. MaxTasks :
              /\ Committing(p, i) => locks[p].follower = i
              /\ Task(p, i).pc = "locked" => locks[p].follower = i
        /\ (\A i \in 1 .. MaxTasks : ~Committing(p, i)) =>
              /\ block_number[p] = Len(block_storage[p])
              /\ world_state[p] = Applied(block_storage[p])
        /\ \A h \in 1 .. Len(block_storage[p]) : block_storage[p][h].body.height = h

\* Persisted blocks are never replaced: storage grows by one block at the
\* committed height, and a Commit for a committed height writes nothing.
OneBlockPerHeight ==
    \A p \in honest :
        /\ \/ block_storage'[p] = block_storage[p]
           \/ /\ Len(block_storage'[p]) = block_number[p]
              /\ SubSeq(block_storage'[p], 1, Len(block_storage[p])) = block_storage[p]
              /\ Len(block_storage'[p]) = Len(block_storage[p]) + 1
        /\ \A i \in 1 .. MaxTasks :
              (/\ Task(p, i).pc = "locked"
               /\ Task(p, i).message.payload.kind = "Commit"
               /\ Task(p, i).message.payload.block_number <= block_number[p]
               /\ tasks'[p][i] # tasks[p][i])
                 => /\ tasks'[p][i].pc = "idle"
                    /\ sent'.reply = NoMsg
                    /\ UNCHANGED <<fvars, svars>>

\* C25 (commit under the lock): a handler holds the follower-state lock from
\* the commit of a round through the block write, the queue pruning and the
\* world-state apply, so no other handler sees the committed number h before
\* block h is persisted, and at most one block is persisted per height: a
\* second Commit for a committed height is rejected.
CommitAtomic == []CommitUnderLock /\ [][OneBlockPerHeight]_vars

\* A handler has committed height 1 and not yet written the block while the
\* other handler is about to take the lock.
CommitAtomicWitness ==
    \E p \in honest : \E i, j \in 1 .. MaxTasks :
        /\ Task(p, i).pc = "write"
        /\ block_number[p] = 1
        /\ block_storage[p] = <<>>
        /\ Task(p, j).pc = "check"
        /\ follower_state_in_block(St(p), Task(p, j).message.payload.block_number)

\* The height of the message the handler in slot i of peer p was called with.
TaskBlock(p, i) == Task(p, i).message.payload.block_number

\* The handler in slot i of peer p has not yet been let through by
\* follower_state_in_block.
Suspended(p, i) == Task(p, i).pc \in {"check", "wait"}

\* A handler that has been let through has a message of a height up to
\* block_number + 1.
RunsInBlock ==
    \A p \in honest : \A i \in 1 .. MaxTasks :
        Task(p, i).pc \notin {"idle", "check", "wait"} =>
            TaskBlock(p, i) <= block_number[p] + 1

\* A step that leaves a handler suspended changes nothing but the position
\* of that handler: no state of the follower, no lock, no message.
SuspendedStep ==
    \A p \in honest : \A i \in 1 .. MaxTasks :
        (/\ Suspended(p, i)
         /\ tasks'[p][i] # tasks[p][i]
         /\ tasks'[p][i].pc \in {"check", "wait"})
           => /\ UNCHANGED <<fvars, svars, signed, sent, locks>>
              /\ tasks'[p][i].message = tasks[p][i].message
              /\ TaskBlock(p, i) > block_number[p] + 1 \/ Task(p, i).pc = "wait"

\* The handler in slot i of peer p is suspended although block_number + 1
\* has reached the height of its message.
Overdue(p, i) ==
    Suspended(p, i) /\ follower_state_in_block(St(p), TaskBlock(p, i))

\* No handler stays suspended once block_number + 1 has reached the height
\* of its message: block_number never decreases, so a handler that is
\* overdue stays so until it is let through.
Resumes ==
    \A i \in 1 .. MaxTasks : []<>(\A p \in honest : ~Overdue(p, i))

\* C22 (waiting rule): a handler whose message is for a height above
\* block_number + 1 is suspended without a check or a state change, and once
\* block_number has advanced far enough it is resumed and processes the
\* message, also when the commit and its notification fall between the
\* handler's comparison and its wait.
WaitingRule == []RunsInBlock /\ [][SuspendedStep]_vars /\ Resumes

\* A Prepare for height 2 that arrived before height 1 was committed runs
\* under the lock after the commit.
WaitingRuleWitness ==
    \E p \in honest : \E i \in 1 .. MaxTasks :
        /\ Task(p, i).pc = "locked"
        /\ TaskBlock(p, i) = 2
        /\ block_number[p] = 1

\* The tasks of a peer: its handler slots and its censorship checker.
Actors == (1 .. MaxTasks) \cup {Checker}

\* The lock a task has to take for its next step ("none": no lock).  A task
\* that broadcasts a ViewChange needs its own handle_message to take the
\* follower-state lock.
Needs(p, x) ==
    IF x = Checker
    THEN CASE watchdog[p].pc \in {"lock", "broadcast"} -> "follower"
           [] OTHER -> "none"
    ELSE CASE Task(p, x).pc \in {"check", "broadcast"} -> "follower"
           [] Task(p, x).pc = "prune" -> "queue"
           [] Task(p, x).pc = "apply" -> "world"
           [] OTHER -> "none"

\* Task x of peer p needs a lock that is held.
Blocked(p, x) == Needs(p, x) # "none" /\ locks[p][Needs(p, x)] # Free

\* Task x of peer p runs, or waits for a task that proceeds itself, along a
\* chain of at most n tasks.
RECURSIVE Proceeds(_, _, _)
Proceeds(p, x, n) ==
    \/ ~Blocked(p, x)
    \/ /\ n > 0
       /\ locks[p][Needs(p, x)] # x
       /\ Proceeds(p, locks[p][Needs(p, x)], n - 1)

\* No task waits for a lock it holds itself, nor for a task that waits for
\* it in a circle: every chain of waiting tasks ends at a task that needs
\* no lock or a free one.
NoDeadlock ==
    \A p \in honest : \A x \in Actors : Proceeds(p, x, MaxTasks + 1)

\* A task that broadcasts a ViewChange does not hold the follower-state
\* lock, and a handler that takes the queue lock or the world-state lock
\* holds the follower-state lock and not the lock that comes later.
LocksHeld ==
    \A p \in honest :
        /\ watchdog[p].pc = "broadcast" => locks[p].follower # Checker
        /\ watchdog[p].pc = "inspect" <=> locks[p].queue = Checker
        /\ locks[p].world # Checker
        /\ \A i \in 1 .. MaxTasks :
              /\ Task(p, i).pc = "broadcast" => locks[p].follower # i
              /\ Task(p, i).pc \in {"prune", "apply"} =>
                    locks[p].follower = i /\ locks[p].world # i
              /\ locks[p].queue # i

\* The follower-state lock is never taken by a task that holds the queue
\* lock or the world-state lock, and the queue lock never by a task that
\* holds the world-state lock.
LockOrder ==
    \A p \in honest : \A x \in Actors :
        /\ (locks'[p].follower = x /\ locks[p].follower # x) =>
              locks[p].queue # x /\ locks[p].world # x
        /\ (locks'[p].queue = x /\ locks[p].queue # x) => locks[p].world # x

\* C24 (lock order): the locks are taken in the order follower-state, queue,
\* world-state; no task takes the follower-state lock while it holds the
\* queue lock or the world-state lock; request_view_change gives the
\* follower-state lock back before it broadcasts; so the handlers, the
\* censorship checker and the ViewChange broadcast, whose message comes
\* back into handle_message, never deadlock.
LockDiscipline == [](NoDeadlock /\ LocksHeld) /\ [][LockOrder]_vars

\* A handler that requested a view change is broadcasting while the other
\* handler holds the follower-state lock in the commit path and waits for
\* the queue lock, which the censorship checker holds.
LockDisciplineWitness ==
    \E p \in honest : \E i, j \in 1 .. MaxTasks :
        /\ Task(p, i).pc = "broadcast"
        /\ Task(p, j).pc = "prune"
        /\ locks[p].follower = j
        /\ locks[p].queue = Checker

\* The wait of the censorship checker of peer p ends by timeout and the
\* checker goes on to inspect the queue.
Inspects(p) == watchdog[p].pc = "sleep" /\ watchdog'[p].pc = "inspect"

\* C26 (commits restart the timer): a commit restarts the timer of the
\* censorship checker, so its wait does not end by timeout, and it neither
\* inspects the queue nor requests a view change, while the last commit is
\* less than CENSORSHIP_TIMEOUT old.
CommitRestartsTimer ==
    [][\A p \in honest : Inspects(p) => ~recent_commit[p]]_vars
====
